---- MODULE Spec2Model ----
(***************************************************************************)
(* A model of the extraction-and-quality-gating pipeline of                *)
(* code/energy_gauge_automation.py: the multi-engine text extractor        *)
(* (OCRProcessor), the duplicate detector (DuplicateDetector), the quality *)
(* indicator (QualityIndicator) and the orchestrator                       *)
(* (EnergyGaugeAutomation: process_single_lot, process_all_inputs,         *)
(* process_multiple_lots_parallel).                                        *)
(*                                                                         *)
(* Conventions.  A confidence is an integer number of hundredths (0.6 is   *)
(* 60).  A text is a sequence of one-character strings.  A Python dict is  *)
(* a TLA+ record whose missing keys hold the value Absent.                 *)
(***************************************************************************)
EXTENDS Integers, Sequences, FiniteSets, TLC

VARIABLES
    config,            \* ConfigManager.config (the options the core reads)
    ocr_in,            \* the environment of one extract_text call
    ocr_out,           \* what that call returned (NoResult before it returns)
    processed_hashes,  \* DuplicateDetector.processed_hashes
    hash_file,         \* archive/processed_hashes.json, the persisted store
    dd_last,           \* the last DuplicateDetector call: operation, record, result
    dd_prev,           \* the DuplicateDetector call before that
    quality_indicator, \* the QualityIndicator
    com_interface,     \* the EnergyGaugeCOMInterface: connected, project loaded
    gui,               \* is there a StoplightGUI, and its processing flag
    input_files,       \* process_all_inputs: the sorted list of input files,
                       \* each given by what the file holds
    faulty,            \* the operations that can fail in this run
    batch,             \* process_all_inputs: its position and its counters
    pass,              \* the last process_single_lot pass: what it did
    prev,              \* the pass before that
    tally,             \* over the passes so far: how many returned failure, ...
    marker,            \* threads inside mark_as_processed: position, record,
                       \* and the list handed to json.dump
    par,               \* process_multiple_lots_parallel: the main thread
    futures,           \* the jobs submitted to the executor, in order
    results            \* the list process_multiple_lots_parallel builds

ocr_vars == <<ocr_in, ocr_out>>
dd_vars == <<processed_hashes, hash_file, dd_last, dd_prev>>
seq_vars == <<quality_indicator, com_interface, gui, input_files, faulty, batch, pass, prev, tally>>
par_vars == <<marker, par, futures, results>>
vars == <<config, ocr_vars, dd_vars, seq_vars, par_vars>>

Absent == "<absent>"
\* The value of a result variable before the call has returned.
NoResult == [text |-> <<>>, confidence |-> 0, method |-> "<pending>", success |-> FALSE]

(***************************************************************************)
(* ConfigManager                                                           *)
(***************************************************************************)
DefaultThreshold == 60

\* The thresholds a run may be configured with (ConfigManager.set).
Thresholds == {0, DefaultThreshold, 100}

(***************************************************************************)
(* Texts                                                                   *)
(***************************************************************************)
Whitespace == {" ", "\n", "\t"}

RECURSIVE lstrip(_)
lstrip(s) ==
    IF s # <<>> /\ Head(s) \in Whitespace THEN lstrip(Tail(s)) ELSE s

RECURSIVE rstrip(_)
rstrip(s) ==
    IF s # <<>> /\ s[Len(s)] \in Whitespace
    THEN rstrip(SubSeq(s, 1, Len(s) - 1))
    ELSE s

\* str.strip()
strip(s) == rstrip(lstrip(s))

\* What an engine may read off an image, before strip().
RawTexts == { <<>>, <<" ">>, <<"3", " ", "t", "o", "n">>, <<"a", "b", "\n">> }

\* The confidences an engine may report.
Confidences == {0, 59, 60, 61, 100}

(***************************************************************************)
(* OCRProcessor: the two engine adapters.  An engine's environment says    *)
(* whether the backend is installed, whether the backend call raises, and  *)
(* what it reads otherwise.                                                *)
(***************************************************************************)
EngineEnvs ==
    [available : BOOLEAN, raises : BOOLEAN, text : RawTexts, conf : Confidences]

extract_with_tesseract(e) ==
    IF ~e.available THEN <<(<<>>), 0>>
    ELSE IF e.raises THEN <<(<<>>), 0>>
    ELSE <<strip(e.text), e.conf>>

extract_with_easyocr(e) ==
    IF ~e.available THEN <<(<<>>), 0>>
    ELSE IF e.raises THEN <<(<<>>), 0>>
    ELSE <<strip(e.text), e.conf>>

(***************************************************************************)
(* OCRProcessor.extract_text                                               *)
(***************************************************************************)
\* Mutants of step 1: a strict comparison; "or" in place of "and".
TesseractAccepted_strict(conf, text, T) == conf > T /\ text # <<>>

TesseractAccepted_or(conf, text, T) == conf >= T \/ text # <<>>

\* Step 1: is Engine A's result accepted?
TesseractAccepted(conf, text, T) == conf >= T /\ text # <<>>

\* Mutant of step 2: Engine B is accepted whenever it read some text.
EasyocrAccepted_any_text(conf, text, T) == text # <<>>

\* Step 2: is Engine B's result accepted?
EasyocrAccepted(conf, text, T) == conf >= T /\ text # <<>>

\* Mutant of step 3: a tie goes to Engine B.
BestAvailable_strict(tText, tConf, eText, eConf, T) ==
    IF tConf > eConf
    THEN [text |-> tText, confidence |-> tConf, method |-> "tesseract",
          success |-> tConf >= T]
    ELSE [text |-> eText, confidence |-> eConf, method |-> "easyocr",
          success |-> eConf >= T]

\* Step 3: the best available result when neither was accepted.
BestAvailable(tText, tConf, eText, eConf, T) ==
    IF tConf >= eConf
    THEN [text |-> tText, confidence |-> tConf, method |-> "tesseract",
          success |-> tConf >= T]
    ELSE [text |-> eText, confidence |-> eConf, method |-> "easyocr",
          success |-> eConf >= T]

extract_text(exists, eA, eB, T) ==
    IF ~exists
    THEN [text |-> <<>>, confidence |-> 0, method |-> "none", success |-> FALSE]
    ELSE
      LET t == extract_with_tesseract(eA) IN
      IF TesseractAccepted(t[2], t[1], T)
      THEN [text |-> t[1], confidence |-> t[2], method |-> "tesseract",
            success |-> TRUE]
      ELSE
        LET e == extract_with_easyocr(eB) IN
        IF EasyocrAccepted(e[2], e[1], T)
        THEN [text |-> e[1], confidence |-> e[2], method |-> "easyocr",
              success |-> TRUE]
        ELSE BestAvailable(t[1], t[2], e[1], e[2], T)

\* Mutant: both engines are run whenever the image exists.
EnginesRun_both(exists, eA, T) ==
    IF ~exists THEN <<>> ELSE <<"tesseract", "easyocr">>

\* The engines one extract_text call runs, in order.
EnginesRun(exists, eA, T) ==
    IF ~exists THEN <<>>
    ELSE
      LET t == extract_with_tesseract(eA) IN
      IF TesseractAccepted(t[2], t[1], T)
      THEN <<"tesseract">>
      ELSE <<"tesseract", "easyocr">>

\* The environment of one call: is the image there, what does each engine do.
OCRInputs == [exists : BOOLEAN, A : EngineEnvs, B : EngineEnvs]

\* No extract_text call is under way.
OCRIdle ==
    /\ ocr_in = [exists |-> FALSE,
                 A |-> [available |-> FALSE, raises |-> FALSE, text |-> <<>>, conf |-> 0],
                 B |-> [available |-> FALSE, raises |-> FALSE, text |-> <<>>, conf |-> 0]]
    /\ ocr_out = NoResult

(***************************************************************************)
(* Regular expressions, as extract_field_from_text uses them: a pattern is *)
(* a sequence of items, each a character class with a repetition range     *)
(* (max < 0: unbounded); the items of the one capture group are flagged.   *)
(* Matching is Python's re.search: leftmost start, greedy repetition with  *)
(* backtracking.                                                           *)
(***************************************************************************)
Digits == {"0", "1", "2", "3", "4", "5", "6", "7", "8", "9"}

\* \s
RegexSpace == {" ", "\t", "\n", "\r"}

Item(set, min, max, grp) == [set |-> set, min |-> min, max |-> max, grp |-> grp]

\* The literal word w.
Word(w) == [i \in 1..Len(w) |-> Item({w[i]}, 1, 1, FALSE)]

\* \s*  and  [:\s]*
Spaces == <<Item(RegexSpace, 0, -1, FALSE)>>
ColonSpaces == <<Item(RegexSpace \cup {":"}, 0, -1, FALSE)>>

\* ([0-9,]+\.?[0-9]*)  and  ([0-9]+\.?[0-9]*)
NumberWithCommas ==
    <<Item(Digits \cup {","}, 1, -1, TRUE), Item({"."}, 0, 1, TRUE),
      Item(Digits, 0, -1, TRUE)>>
Number ==
    <<Item(Digits, 1, -1, TRUE), Item({"."}, 0, 1, TRUE),
      Item(Digits, 0, -1, TRUE)>>

\* The length of the longest run of characters of set in t from position i,
\* at most limit.
RECURSIVE Run(_, _, _, _)
Run(set, t, i, limit) ==
    IF limit = 0 \/ i > Len(t) \/ t[i] \notin set
    THEN 0
    ELSE 1 + Run(set, t, i + 1, limit - 1)

NoMatch == [ok |-> FALSE, gs |-> 0, ge |-> 0]

\* MatchFrom: items k.. of P matched at position i of t; TryCount: item k
\* taking c characters, then fewer.  gs, ge: the group is t[gs .. ge-1].
RECURSIVE MatchFrom(_, _, _, _), TryCount(_, _, _, _, _)
MatchFrom(P, k, t, i) ==
    IF k > Len(P)
    THEN [ok |-> TRUE, gs |-> 0, ge |-> 0]
    ELSE TryCount(P, k, t, i,
                  Run(P[k].set, t, i, IF P[k].max < 0 THEN Len(t) ELSE P[k].max))

TryCount(P, k, t, i, c) ==
    IF c < P[k].min
    THEN NoMatch
    ELSE LET r == MatchFrom(P, k + 1, t, i + c)
         IN  IF r.ok
             THEN [ok |-> TRUE,
                   gs |-> IF P[k].grp /\ (k = 1 \/ ~P[k - 1].grp)
                          THEN i ELSE r.gs,
                   ge |-> IF P[k].grp /\ (k = Len(P) \/ ~P[k + 1].grp)
                          THEN i + c ELSE r.ge]
             ELSE TryCount(P, k, t, i, c - 1)

\* re.search(pattern, text): the match at the leftmost start that has one.
re_search(P, t) ==
    LET starts == {i \in 1..(Len(t) + 1) : MatchFrom(P, 1, t, i).ok}
    IN  IF starts = {}
        THEN NoMatch
        ELSE MatchFrom(P, 1, t, CHOOSE i \in starts : \A j \in starts : i <= j)

\* match.group(1)
group1(m, t) == SubSeq(t, m.gs, m.ge - 1)

\* str.lower()
LowerOf ==
    ("A" :> "a") @@ ("B" :> "b") @@ ("C" :> "c") @@ ("D" :> "d") @@
    ("E" :> "e") @@ ("F" :> "f") @@ ("G" :> "g") @@ ("H" :> "h") @@
    ("I" :> "i") @@ ("J" :> "j") @@ ("K" :> "k") @@ ("L" :> "l") @@
    ("M" :> "m") @@ ("N" :> "n") @@ ("O" :> "o") @@ ("P" :> "p") @@
    ("Q" :> "q") @@ ("R" :> "r") @@ ("S" :> "s") @@ ("T" :> "t") @@
    ("U" :> "u") @@ ("V" :> "v") @@ ("W" :> "w") @@ ("X" :> "x") @@
    ("Y" :> "y") @@ ("Z" :> "z")

lower(t) ==
    [i \in 1..Len(t) |-> IF t[i] \in DOMAIN LowerOf THEN LowerOf[t[i]] ELSE t[i]]

\* str.replace(c, '')
RECURSIVE remove(_, _)
remove(t, c) ==
    IF t = <<>> THEN <<>>
    ELSE IF Head(t) = c THEN remove(Tail(t), c)
    ELSE <<Head(t)>> \o remove(Tail(t), c)

(***************************************************************************)
(* float(value) and str(float) on what the number patterns capture: digits *)
(* with at most one point.  A number is held in tenths; the texts of the   *)
(* model carry at most one fractional digit and fewer than 16 digits.      *)
(***************************************************************************)
DigitValue ==
    ("0" :> 0) @@ ("1" :> 1) @@ ("2" :> 2) @@ ("3" :> 3) @@ ("4" :> 4) @@
    ("5" :> 5) @@ ("6" :> 6) @@ ("7" :> 7) @@ ("8" :> 8) @@ ("9" :> 9)

DigitChar == [n \in 0..9 |-> CHOOSE c \in Digits : DigitValue[c] = n]

\* The position of the point, or Len + 1.
PointAt(v) ==
    IF \E i \in 1..Len(v) : v[i] = "."
    THEN CHOOSE i \in 1..Len(v) : v[i] = "."
    ELSE Len(v) + 1

IntDigits(v) == SubSeq(v, 1, PointAt(v) - 1)
FracDigits(v) == SubSeq(v, PointAt(v) + 1, Len(v))

\* float(value) raises ValueError unless there is a digit.
float_ok(v) == \E i \in 1..Len(v) : v[i] \in Digits

RECURSIVE DigitsValue(_)
DigitsValue(ds) ==
    IF ds = <<>> THEN 0
    ELSE 10 * DigitsValue(SubSeq(ds, 1, Len(ds) - 1)) + DigitValue[ds[Len(ds)]]

\* float(value), in tenths.
float_tenths(v) ==
    10 * DigitsValue(IntDigits(v))
      + (IF FracDigits(v) = <<>> THEN 0 ELSE DigitValue[FracDigits(v)[1]])

RECURSIVE NatDigits(_)
NatDigits(n) ==
    IF n < 10 THEN <<DigitChar[n]>>
    ELSE NatDigits(n \div 10) \o <<DigitChar[n % 10]>>

\* str(x) of the float x held in tenths: "2402.0", "2.5".
float_str(x) == NatDigits(x \div 10) \o <<".">> \o <<DigitChar[x % 10]>>

(***************************************************************************)
(* OCRProcessor.extract_field_from_text                                    *)
(***************************************************************************)
patterns ==
    [conditioned_floor_area |->
        << Word(<<"f","l","o","o","r">>) \o Spaces \o Word(<<"a","r","e","a">>)
             \o ColonSpaces \o NumberWithCommas,
           Word(<<"a","r","e","a">>) \o ColonSpaces \o NumberWithCommas
             \o Spaces \o Word(<<"s","q">>) \o Spaces \o Word(<<"f","t">>),
           NumberWithCommas \o Spaces \o Word(<<"s","q">>) \o Spaces
             \o Word(<<"f","t">>) >>,
     tonnage |->
        << Number \o Spaces \o Word(<<"t","o","n">>),
           Word(<<"t","o","n","n","a","g","e">>) \o ColonSpaces \o Number >>,
     seer |->
        << Word(<<"s","e","e","r">>) \o ColonSpaces \o Number,
           Number \o Spaces \o Word(<<"s","e","e","r">>) >>,
     u_factor |->
        << Word(<<"u">>) \o ColonSpaces \o Number,
           Word(<<"u","-","f","a","c","t","o","r">>) \o ColonSpaces \o Number >>,
     shgc |->
        << Word(<<"s","h","g","c">>) \o ColonSpaces \o Number,
           Word(<<"s","o","l","a","r">>) \o Spaces \o Word(<<"h","e","a","t">>)
             \o Spaces \o Word(<<"g","a","i","n">>) \o ColonSpaces \o Number >>]

\* None
NoField == [found |-> FALSE, value |-> <<>>]

\* Mutant: a match that does not parse ends the search.
RECURSIVE first_parsed_stops(_, _, _)
first_parsed_stops(field_patterns, k, text) ==
    IF k > Len(field_patterns) THEN NoField
    ELSE LET m == re_search(field_patterns[k], lower(text))
         IN  IF ~m.ok
             THEN first_parsed_stops(field_patterns, k + 1, text)
             ELSE IF float_ok(remove(group1(m, lower(text)), ","))
             THEN [found |-> TRUE,
                   value |-> float_str(float_tenths(
                                 remove(group1(m, lower(text)), ",")))]
             ELSE NoField

\* The loop over field_patterns from pattern k on.
RECURSIVE first_parsed(_, _, _)
first_parsed(field_patterns, k, text) ==
    IF k > Len(field_patterns) THEN NoField
    ELSE LET m == re_search(field_patterns[k], lower(text))
         IN  IF m.ok /\ float_ok(remove(group1(m, lower(text)), ","))
             THEN [found |-> TRUE,
                   value |-> float_str(float_tenths(
                                 remove(group1(m, lower(text)), ",")))]
             ELSE first_parsed(field_patterns, k + 1, text)

extract_field_from_text(text, field_name) ==
    IF field_name \in DOMAIN patterns
    THEN first_parsed(patterns[field_name], 1, text)
    ELSE NoField

(***************************************************************************)
(* Python dicts: a dict is a function whose domain is the set of its keys. *)
(***************************************************************************)
EmptyDict == <<>>

\* k in d
has(d, k) == k \in DOMAIN d

\* d.pop(k, None), on a copy
pop(d, k) == [j \in DOMAIN d \ {k} |-> d[j]]

\* d[k] = v
put(d, k, v) == (k :> v) @@ d

(***************************************************************************)
(* The files a floor_plan_image may name: two copies of one plan, another  *)
(* plan; every other path names no file.                                   *)
(***************************************************************************)
Files ==
    ("floorplans/Lot101_plan.png" :> [bytes |-> "plan-A"]) @@
    ("floorplans/Lot101_copy.png" :> [bytes |-> "plan-A"]) @@
    ("floorplans/Lot102_plan.png" :> [bytes |-> "plan-B"])

\* os.path.exists
exists(path) == path \in DOMAIN Files

\* The values floor_plan_image takes in the input records.
ImagePaths == DOMAIN Files \cup {"floorplans/missing.png", ""}

(***************************************************************************)
(* Input records.  Numbers are in tenths (2402.0 is 24020).                *)
(***************************************************************************)
LotIds == {"Lot101", "Lot102"}

DefaultFloorArea == 20000
DefaultTonnage == 25
DefaultSeer2 == 140
DefaultAch50 == 70

\* The record of create_sample_input, without lot_id and floor_plan_image.
SampleContent ==
    [project_info |-> [name |-> "Sample Project", address |-> "123 Main St",
                       city |-> "Orlando", state |-> "FL", zip |-> "32801"],
     building_data |-> [conditioned_floor_area |-> 24020,
                        windows |-> [NE |-> [area |-> 1205, u_factor |-> 3, shgc |-> 2]],
                        walls |-> [WoodFrameExt |-> [area |-> 16500, r_value |-> 190]],
                        infiltration |-> [ach50 |-> 70]],
     hvac |-> [system1 |-> [tonnage |-> 30, seer2 |-> 150]],
     duct |-> [location |-> "Interior"]]

\* The same with the duct section left out.
NoDuctContent == pop(SampleContent, "duct")

\* A record holding nothing but its identifier.
BareContent == EmptyDict

\* The same as the sample, but the floor area is 0 and system1 has no tonnage.
FalsyContent ==
    put(put(SampleContent, "building_data",
            put(SampleContent.building_data, "conditioned_floor_area", 0)),
        "hvac", [system1 |-> [seer2 |-> 150]])

\* The sample without the floor area.
NoAreaContent ==
    put(SampleContent, "building_data",
        pop(SampleContent.building_data, "conditioned_floor_area"))

\* The same without the hvac section as well.
UnsizedContent == pop(NoAreaContent, "hvac")

Contents == {SampleContent, NoDuctContent, BareContent, FalsyContent}

\* A record: an identifier, a content, and perhaps an image path.
MakeRecord(lot, content, image) ==
    IF image = Absent
    THEN put(content, "lot_id", lot)
    ELSE put(put(content, "lot_id", lot), "floor_plan_image", image)

(***************************************************************************)
(* DuplicateDetector                                                       *)
(***************************************************************************)
\* hashlib.md5(...).hexdigest(): the digest stands for what was digested
\* (no two inputs of the model collide).
md5(data) == [md5 |-> data]

\* The "" that calculate_hash returns when the file cannot be read.
EmptyDigest == [empty |-> TRUE]

\* calculate_hash(file_path); readable says whether reading the file works.
calculate_hash(path, readable) ==
    IF readable THEN md5(Files[path]) ELSE EmptyDigest

\* floor_plan_path and os.path.exists(floor_plan_path)
image_resolvable(input_data) ==
    /\ has(input_data, "floor_plan_image")
    /\ input_data.floor_plan_image # ""
    /\ exists(input_data.floor_plan_image)

\* Mutant: the identifier stays in the digested content.
content_for_hash_keeps_lot(input_data) == pop(input_data, "floor_plan_image")

\* The copy of input_data without lot_id and floor_plan_image.
content_for_hash(input_data) ==
    pop(pop(input_data, "lot_id"), "floor_plan_image")

content_hash(input_data) == md5(content_for_hash(input_data))

\* Mutant: only the content digest is looked up.
is_duplicate_content_only(input_data, hashes, enabled, readable) ==
    enabled /\ content_hash(input_data) \in hashes

is_duplicate(input_data, hashes, enabled, readable) ==
    IF ~enabled THEN FALSE
    ELSE IF /\ image_resolvable(input_data)
            /\ calculate_hash(input_data.floor_plan_image, readable) \in hashes
         THEN TRUE
    ELSE content_hash(input_data) \in hashes

\* Mutant: the content digest is not added when the image digest was.
marked_hashes_image_only(input_data, hashes, readable) ==
    IF image_resolvable(input_data) /\ readable
    THEN hashes \cup {calculate_hash(input_data.floor_plan_image, readable)}
    ELSE hashes \cup {content_hash(input_data)}

\* Mutant: the set is rebuilt from the record's digest alone.
marked_hashes_replacing(input_data, hashes, readable) ==
    {content_hash(input_data)}

\* processed_hashes after the two add() calls of mark_as_processed.
marked_hashes(input_data, hashes, readable) ==
    LET withImage ==
          IF image_resolvable(input_data)
          THEN LET file_hash ==
                     calculate_hash(input_data.floor_plan_image, readable)
               IN  IF file_hash # EmptyDigest
                   THEN hashes \cup {file_hash}
                   ELSE hashes
          ELSE hashes
    IN  withImage \cup {content_hash(input_data)}

\* The store: missing, holding {"hashes": [...]}, or not parseable.
Store(state, hashes) == [state |-> state, hashes |-> hashes]

\* What writing the store can do: succeed, fail before the file is opened
\* (the file is left as it was), or fail while writing (the file was
\* truncated by open(..., 'w') and holds no complete document).
SaveOutcomes == {"ok", "open_fails", "write_fails"}

\* save_processed_hashes: the file afterwards.  The exception is logged.
save_processed_hashes(file, hashes, outcome) ==
    CASE outcome = "ok" -> Store("ok", hashes)
      [] outcome = "open_fails" -> file
      [] outcome = "write_fails" -> Store("corrupt", {})

\* load_processed_hashes: the set after construction.
load_processed_hashes(file) ==
    IF file.state = "ok" THEN file.hashes ELSE {}

\* Mutant: a save that fails takes the new digests out of the set again.
mark_as_processed_rolls_back(input_data, hashes, file, readable, outcome) ==
    IF outcome = "ok"
    THEN [hashes |-> marked_hashes(input_data, hashes, readable),
          file |-> save_processed_hashes(
                       file, marked_hashes(input_data, hashes, readable), outcome)]
    ELSE [hashes |-> hashes,
          file |-> save_processed_hashes(file, hashes, outcome)]

\* mark_as_processed: the detector's set and the store afterwards.
mark_as_processed(input_data, hashes, file, readable, outcome) ==
    LET new == marked_hashes(input_data, hashes, readable)
    IN  [hashes |-> new, file |-> save_processed_hashes(file, new, outcome)]

(***************************************************************************)
(* QualityIndicator.  A status message is its text and the lot it names;   *)
(* an outcome entry is its lot_id and status (the timestamp is left out).  *)
(***************************************************************************)
Message(lot, text) == [lot |-> lot, text |-> text]

QualityInit ==
    [data_quality |-> "GREEN", system_health |-> "GREEN", current_lot |-> "",
     status_message |-> Message("", ""), processed_lots |-> <<>>]

set_data_quality(q, status, message) ==
    [q EXCEPT !.data_quality = status,
              !.status_message = IF message.text # "" THEN message ELSE @]

set_system_health(q, status, message) ==
    [q EXCEPT !.system_health = status,
              !.status_message = IF message.text # "" THEN message ELSE @]

set_current_lot(q, lot_id) == [q EXCEPT !.current_lot = lot_id]

add_processed_lot(q, lot_id, status) ==
    [q EXCEPT !.processed_lots = Append(@, [lot_id |-> lot_id, status |-> status])]

(***************************************************************************)
(* InputProcessor                                                          *)
(***************************************************************************)
\* What json.load gives for an input file: a record, or something load_json
\* rejects (not JSON, not a dict, a dict without lot_id).
ValidFile(data) == [valid |-> TRUE, data |-> data]
InvalidFile == [valid |-> FALSE, data |-> EmptyDict]

\* load_json: the dict, or None (found = FALSE).
load_json(file) ==
    IF file.valid /\ has(file.data, "lot_id")
    THEN [found |-> TRUE, data |-> file.data]
    ELSE [found |-> FALSE, data |-> EmptyDict]

defaults ==
    [project_info |-> EmptyDict,
     building_data |-> [conditioned_floor_area |-> DefaultFloorArea,
                        windows |-> EmptyDict, walls |-> EmptyDict,
                        infiltration |-> [ach50 |-> DefaultAch50]],
     hvac |-> [system1 |-> [tonnage |-> DefaultTonnage, seer2 |-> DefaultSeer2]],
     duct |-> [location |-> "Interior"]]

required_project_fields == {"name", "address", "city", "state", "zip"}

DefaultProjectField ==
    [name |-> "Default_name", address |-> "Default_address",
     city |-> "Default_city", state |-> "Default_state", zip |-> "Default_zip"]

\* Fill missing top-level sections.
fill_sections(data) ==
    [k \in DOMAIN data \cup DOMAIN defaults |->
        IF k \in DOMAIN data THEN data[k] ELSE defaults[k]]

\* Fill the missing fields of project_info.
fill_project_info(project_info) ==
    [f \in DOMAIN project_info \cup required_project_fields |->
        IF f \in DOMAIN project_info THEN project_info[f]
        ELSE DefaultProjectField[f]]

\* Fill a missing conditioned_floor_area.
fill_floor_area(building_data) ==
    IF has(building_data, "conditioned_floor_area")
    THEN building_data
    ELSE put(building_data, "conditioned_floor_area", DefaultFloorArea)

\* The warnings validate_and_fill_defaults returns.
fill_warnings(data) ==
    LET d1 == fill_sections(data)
    IN  {<<"Missing section", k>> : k \in DOMAIN defaults \ DOMAIN data}
        \cup {<<"Missing project_info field", f>> :
                 f \in required_project_fields \ DOMAIN d1.project_info}
        \cup (IF has(d1.building_data, "conditioned_floor_area")
              THEN {}
              ELSE {<<"Missing", "conditioned_floor_area">>})

\* validate_and_fill_defaults: the dict afterwards (it is changed in place).
validate_and_fill_defaults(data) ==
    LET d1 == fill_sections(data)
        d2 == put(d1, "project_info", fill_project_info(d1.project_info))
    IN  put(d2, "building_data", fill_floor_area(d2.building_data))

(***************************************************************************)
(* EnergyGaugeAutomation.enhance_data_with_ocr                             *)
(***************************************************************************)
\* Mutant: the floor area is taken from the text whatever the record holds.
floor_area_missing_always(building_data) == TRUE

\* 'conditioned_floor_area' not in building_data or not building_data[...]
floor_area_missing(building_data) ==
    \/ ~has(building_data, "conditioned_floor_area")
    \/ building_data.conditioned_floor_area = 0

\* 'tonnage' not in system_data or not system_data['tonnage']
tonnage_missing(system_data) ==
    ~has(system_data, "tonnage") \/ system_data.tonnage = 0

enhance_building_data(building_data, ocr_text) ==
    LET area == extract_field_from_text(ocr_text, "conditioned_floor_area")
    IN  IF floor_area_missing(building_data) /\ area.found
        THEN put(building_data, "conditioned_floor_area",
                 float_tenths(area.value))
        ELSE building_data

enhance_hvac(hvac_data, ocr_text) ==
    LET tonnage == extract_field_from_text(ocr_text, "tonnage")
    IN  [system_id \in DOMAIN hvac_data |->
            IF tonnage_missing(hvac_data[system_id]) /\ tonnage.found
            THEN put(hvac_data[system_id], "tonnage",
                     float_tenths(tonnage.value))
            ELSE hvac_data[system_id]]

\* The dict afterwards.  A section that is missing is read as {} and what
\* is written into that {} is lost.
enhance_data_with_ocr(input_data, ocr_text) ==
    LET d1 == IF has(input_data, "building_data")
              THEN put(input_data, "building_data",
                       enhance_building_data(input_data.building_data, ocr_text))
              ELSE input_data
    IN  IF has(d1, "hvac")
        THEN put(d1, "hvac", enhance_hvac(d1.hvac, ocr_text))
        ELSE d1

(***************************************************************************)
(* EnergyGaugeCOMInterface.  Each operation is a call into the external    *)
(* application inside try/except; faults is the set of operations whose    *)
(* call fails this time.                                                   *)
(***************************************************************************)
ComInit == [connected |-> FALSE, project |-> FALSE]

\* connect(): the interface afterwards and the value returned.
connect(com, faults) ==
    IF "connect" \in faults
    THEN [com |-> com, ret |-> FALSE]
    ELSE [com |-> [com EXCEPT !.connected = TRUE], ret |-> TRUE]

open_template(com, faults) ==
    IF ~com.connected \/ "open_template" \in faults
    THEN [com |-> com, ret |-> FALSE]
    ELSE [com |-> [com EXCEPT !.project = TRUE], ret |-> TRUE]

\* set_project_info, set_building_data, set_windows, set_hvac_system,
\* calculate, save_project, export_report: the value returned.
com_call(com, op, faults) == com.project /\ op \notin faults

\* disconnect()
disconnect(com) == ComInit

(***************************************************************************)
(* EnergyGaugeAutomation.process_single_lot.  One pass is a chain of       *)
(* stages over a pass state p: the objects the pass works on (quality,     *)
(* hashes, file, com), its local input_data (data), and what it has done:  *)
(* done (it has returned), ret (the value returned), calls (the calls it   *)
(* made, in order), raw (the dict load_json gave), handed (the dict given  *)
(* to set_energygauge_data).  A stage leaves a pass that has returned      *)
(* alone.  env is the environment of the pass: the file's content, the     *)
(* operations that fail (faults) and what the engines read (ocr).          *)
(* The ArchiveManager calls (archive_input, archive_output,                *)
(* log_processing_result) catch their own exceptions and touch only the    *)
(* archive directory; they are left out.                                   *)
(***************************************************************************)
FaultKinds ==
    {"read_image_check", "connect", "open_template", "set_project_info",
     "set_building_data", "set_windows", "set_hvac_system", "calculate",
     "mkdir", "save_project", "export_report", "read_image_mark",
     "store_open", "store_write"}

StartPass(quality, hashes, file, com) ==
    [quality |-> quality, hashes |-> hashes, file |-> file, com |-> com,
     data |-> EmptyDict, done |-> FALSE, ret |-> FALSE, calls |-> <<>>,
     raw |-> EmptyDict, handed |-> EmptyDict]

Return(p, value) == [p EXCEPT !.done = TRUE, !.ret = value]

Call(p, name) == [p EXCEPT !.calls = Append(@, name)]

\* Mutant: a new record does not reset data_quality.
StageLoad_keeps_quality(p, env) ==
    LET l == load_json(env.file)
        p1 == Call(p, "load_json")
    IN  IF ~l.found
        THEN Return(p1, FALSE)
        ELSE [p1 EXCEPT
                !.data = l.data,
                !.raw = l.data,
                !.quality = set_current_lot(p.quality, l.data.lot_id)]

\* Lines 1121-1127: load the file, announce the lot.
StageLoad(p, env) ==
    LET l == load_json(env.file)
        p1 == Call(p, "load_json")
    IN  IF ~l.found
        THEN Return(p1, FALSE)
        ELSE [p1 EXCEPT
                !.data = l.data,
                !.raw = l.data,
                !.quality = set_data_quality(
                                set_current_lot(p.quality, l.data.lot_id),
                                "GREEN", Message(l.data.lot_id, "Processing"))]

\* Lines 1132-1137: the duplicate check.
StageDuplicate(p, env) ==
    IF p.done THEN p
    ELSE
      LET p1 == Call(p, "is_duplicate") IN
      IF is_duplicate(p.data, p.hashes, config.duplicate_detection_enabled,
                      "read_image_check" \notin env.faults)
      THEN Return([p1 EXCEPT !.quality =
                      set_data_quality(p.quality, "YELLOW",
                          Message(p.data.lot_id, "Duplicate detected, skipping"))],
                  TRUE)
      ELSE p1

\* Mutant: default-fill does not report what it filled.
StageDefaults_silent(p, env) ==
    IF p.done THEN p
    ELSE [Call(p, "validate_and_fill_defaults") EXCEPT
             !.data = validate_and_fill_defaults(p.data)]

\* Lines 1139-1147: default-fill.
StageDefaults(p, env) ==
    IF p.done THEN p
    ELSE
      LET p1 == Call(p, "validate_and_fill_defaults")
          filled == validate_and_fill_defaults(p.data)
      IN  [p1 EXCEPT
             !.data = filled,
             !.quality = IF fill_warnings(p.data) # {}
                         THEN set_data_quality(p.quality, "YELLOW",
                                  Message(p.data.lot_id,
                                          "Using defaults for missing data"))
                         ELSE @]

\* Mutant: an extraction that is not accepted leaves the indicator alone.
StageOCR_quiet(p, env) ==
    IF p.done \/ ~image_resolvable(p.data) THEN p
    ELSE
      LET ocr_result == extract_text(exists(p.data.floor_plan_image),
                                     env.ocr.A, env.ocr.B,
                                     config.ocr_confidence_threshold)
          p1 == Call(p, "extract_text")
      IN  IF ocr_result.success
          THEN [Call(p1, "enhance_data_with_ocr") EXCEPT
                  !.data = enhance_data_with_ocr(p.data, ocr_result.text)]
          ELSE p1

\* Lines 1149-1160: extraction from the floor plan.
StageOCR(p, env) ==
    IF p.done \/ ~image_resolvable(p.data) THEN p
    ELSE
      LET ocr_result == extract_text(exists(p.data.floor_plan_image),
                                     env.ocr.A, env.ocr.B,
                                     config.ocr_confidence_threshold)
          p1 == Call(p, "extract_text")
      IN  IF ocr_result.success
          THEN [Call(p1, "enhance_data_with_ocr") EXCEPT
                  !.data = enhance_data_with_ocr(p.data, ocr_result.text)]
          ELSE [p1 EXCEPT !.quality =
                   set_data_quality(p.quality, "YELLOW",
                       Message(p.data.lot_id, "OCR failed or low confidence"))]

\* Mutant: a record whose pass stops at connect is marked all the same.
StageConnect_marks(p, env) ==
    IF p.done \/ p.com.connected THEN p
    ELSE
      LET c == connect(p.com, env.faults)
          p1 == [Call(p, "connect") EXCEPT !.com = c.com]
      IN  IF ~c.ret
          THEN Return([p1 EXCEPT
                          !.hashes = marked_hashes(p.data, p.hashes, TRUE),
                          !.quality =
                          set_system_health(p.quality, "RED",
                              Message(p.data.lot_id,
                                      "Failed to connect to EnergyGauge"))],
                      FALSE)
          ELSE p1

\* Lines 1162-1166: connect, unless connected already.
StageConnect(p, env) ==
    IF p.done \/ p.com.connected THEN p
    ELSE
      LET c == connect(p.com, env.faults)
          p1 == [Call(p, "connect") EXCEPT !.com = c.com]
      IN  IF ~c.ret
          THEN Return([p1 EXCEPT !.quality =
                          set_system_health(p.quality, "RED",
                              Message(p.data.lot_id,
                                      "Failed to connect to EnergyGauge"))],
                      FALSE)
          ELSE p1

\* Mutant: a template that cannot be opened does not end the pass.
StageTemplate_continues(p, env) ==
    IF p.done THEN p
    ELSE
      LET o == open_template(p.com, env.faults)
          p1 == [Call(p, "open_template") EXCEPT !.com = o.com]
      IN  IF ~o.ret
          THEN [p1 EXCEPT !.quality =
                   set_system_health(p.quality, "RED",
                       Message(p.data.lot_id, "Failed to open template"))]
          ELSE p1

\* Lines 1168-1172: open the template.
StageTemplate(p, env) ==
    IF p.done THEN p
    ELSE
      LET o == open_template(p.com, env.faults)
          p1 == [Call(p, "open_template") EXCEPT !.com = o.com]
      IN  IF ~o.ret
          THEN Return([p1 EXCEPT !.quality =
                          set_system_health(p.quality, "RED",
                              Message(p.data.lot_id, "Failed to open template"))],
                      FALSE)
          ELSE p1

\* set_energygauge_data: the calls it makes, in order.
set_data_calls(input_data) ==
    (IF has(input_data, "project_info") THEN <<"set_project_info">> ELSE <<>>)
    \o (IF has(input_data, "building_data")
        THEN <<"set_building_data">>
             \o (IF /\ has(input_data.building_data, "windows")
                    /\ input_data.building_data.windows # EmptyDict
                 THEN <<"set_windows">> ELSE <<>>)
        ELSE <<>>)
    \o (IF has(input_data, "hvac") THEN <<"set_hvac_system">> ELSE <<>>)

\* set_energygauge_data: the value returned.
set_energygauge_data(com, input_data, faults) ==
    \A i \in 1..Len(set_data_calls(input_data)) :
        com_call(com, set_data_calls(input_data)[i], faults)

\* Lines 1174-1180: set the data, calculate.
StageSetAndCalculate(p, env) ==
    IF p.done THEN p
    ELSE
      LET p1 == [p EXCEPT
                   !.calls = @ \o set_data_calls(p.data) \o <<"calculate">>,
                   !.handed = p.data]
          q1 == IF ~set_energygauge_data(p.com, p.data, env.faults)
                THEN set_system_health(p.quality, "YELLOW",
                         Message(p.data.lot_id, "Some data could not be set"))
                ELSE p.quality
          q2 == IF ~com_call(p.com, "calculate", env.faults)
                THEN set_system_health(q1, "YELLOW",
                         Message(p.data.lot_id, "Calculation may have failed"))
                ELSE q1
      IN  [p1 EXCEPT !.quality = q2]

\* Lines 1209-1223: the handler of an exception raised inside the pass.
HandleException(p) ==
    Return([p EXCEPT !.quality =
               add_processed_lot(
                   set_system_health(p.quality, "RED",
                       Message(p.data.lot_id, "Error processing")),
                   p.data.lot_id, "FAILED")],
           FALSE)

\* Lines 1182-1190: the output directory, save and export.  The values
\* save_project and export_report return are not read.
StageSave(p, env) ==
    IF p.done THEN p
    ELSE IF "mkdir" \in env.faults
    THEN HandleException(Call(p, "mkdir"))
    ELSE [p EXCEPT !.calls = @ \o <<"mkdir", "save_project", "export_report">>]

\* Lines 1196-1207: mark as processed, log success.
StageMark(p, env) ==
    IF p.done THEN p
    ELSE
      LET m == mark_as_processed(p.data, p.hashes, p.file,
                   "read_image_mark" \notin env.faults,
                   IF "store_open" \in env.faults THEN "open_fails"
                   ELSE IF "store_write" \in env.faults THEN "write_fails"
                   ELSE "ok")
          p1 == [p EXCEPT
                   !.calls = @ \o <<"mark_as_processed", "add_processed_lot">>,
                   !.hashes = m.hashes,
                   !.file = m.file,
                   !.quality = add_processed_lot(p.quality, p.data.lot_id,
                                                 "SUCCESS")]
      IN  Return(p1, TRUE)

\* Mutant: extraction runs before default-fill.
process_single_lot_extracts_first(p, env) ==
    LET p1 == StageLoad(p, env)
        p2 == StageDuplicate(p1, env)
        p3 == StageOCR(p2, env)
        p4 == StageDefaults(p3, env)
        p5 == StageConnect(p4, env)
        p6 == StageTemplate(p5, env)
        p7 == StageSetAndCalculate(p6, env)
        p8 == StageSave(p7, env)
    IN  StageMark(p8, env)

process_single_lot(p, env) ==
    LET p1 == StageLoad(p, env)
        p2 == StageDuplicate(p1, env)
        p3 == StageDefaults(p2, env)
        p4 == StageOCR(p3, env)
        p5 == StageConnect(p4, env)
        p6 == StageTemplate(p5, env)
        p7 == StageSetAndCalculate(p6, env)
        p8 == StageSave(p7, env)
    IN  StageMark(p8, env)

(***************************************************************************)
(* EnergyGaugeAutomation.process_all_inputs, the sequential batch.         *)
(*   batch.pc: "idle" (not called yet), "loop" (in the for loop, about to  *)
(*   take file batch.idx), "done" (returned).                              *)
(***************************************************************************)
\* No DuplicateDetector call yet.
NoCall == [op |-> "none", rec |-> EmptyDict, ret |-> FALSE]

\* The longest input directory.
MaxFiles == 5

\* What is kept of a pass: the position of its file in the list, the value
\* returned, the calls made, the dict as loaded (raw), as handed to
\* set_energygauge_data (handed) and as it was at the end (data), and the
\* operations that failed.
NoPass ==
    [file |-> 0, ret |-> FALSE, calls |-> <<>>, raw |-> EmptyDict,
     handed |-> EmptyDict, data |-> EmptyDict, faults |-> {}]

Called(calls, name) == \E i \in 1..Len(calls) : calls[i] = name

BatchInit == [pc |-> "idle", idx |-> 1, processed_count |-> 0, failed_count |-> 0]

TallyInit == [passes |-> 0, returned_false |-> 0, save_failed |-> 0]

\* The orchestrator has not been started.
SeqIdle ==
    /\ quality_indicator = QualityInit
    /\ com_interface = ComInit
    /\ gui = [present |-> FALSE, processing |-> FALSE]
    /\ input_files = <<>>
    /\ faulty = {}
    /\ batch = BatchInit
    /\ pass = NoPass
    /\ prev = NoPass
    /\ tally = TallyInit

ParInit == [pc |-> "idle", idx |-> 1]

\* No thread is marking, and the parallel batch has not been started.
ParIdle ==
    /\ marker = <<>>
    /\ par = ParInit
    /\ futures = <<>>
    /\ results = <<>>

\* The records the input files may hold.
SeqRecords ==
    { MakeRecord("Lot101", SampleContent, Absent),
      MakeRecord("Lot102", SampleContent, "floorplans/Lot102_plan.png"),
      MakeRecord("Lot101", NoDuctContent, Absent),
      MakeRecord("Lot101", BareContent, "floorplans/missing.png"),
      MakeRecord("Lot102", FalsyContent, "floorplans/Lot101_plan.png"),
      MakeRecord("Lot101", UnsizedContent, "floorplans/Lot101_plan.png") }

SeqFileContents == {InvalidFile} \cup {ValidFile(r) : r \in SeqRecords}

\* What the engines may read off a floor plan during a pass.
PlanText ==
    <<"F","l","o","o","r"," ","A","r","e","a",":"," ","2",",","4","0","2",
      " ","s","q"," ","f","t","\n","3"," ","t","o","n">>

EngineReads(text, conf) ==
    [available |-> TRUE, raises |-> FALSE, text |-> text, conf |-> conf]

EngineDown ==
    [available |-> FALSE, raises |-> FALSE, text |-> <<>>, conf |-> 0]

SeqOCR ==
    { [A |-> EngineReads(PlanText, 100), B |-> EngineDown],
      [A |-> EngineReads(PlanText, 59), B |-> EngineReads(PlanText, 61)],
      [A |-> EngineReads(PlanText, 59), B |-> EngineDown],
      [A |-> EngineReads(<<" ">>, 61), B |-> EngineDown] }

\* The input directories: short ones of any content, and longer ones of
\* sample records of different lots.
LotName == <<"Lot101", "Lot102", "Lot103", "Lot104", "Lot105", "Lot106", "Lot107">>

SampleBatch(n) ==
    [i \in 1..n |-> ValidFile(MakeRecord(LotName[i], SampleContent, Absent))]

SeqDirectories ==
    {<<>>}
    \cup {<<a>> : a \in SeqFileContents}
    \cup {<<a, b>> : a \in SeqFileContents,
                     b \in {InvalidFile,
                            ValidFile(MakeRecord("Lot102", SampleContent,
                                          "floorplans/Lot102_plan.png"))}}
    \cup {<<a, a>> : a \in SeqFileContents}
    \cup {SampleBatch(n) : n \in 3..MaxFiles}

\* In one run at most one kind of operation is unreliable.
FaultyOps == {{}} \cup {{k} : k \in FaultKinds}

\* The environments of a pass on a file holding the given content: the
\* engines matter only where there is an image to read.
PassEnvs(content) ==
    { [file |-> content, faults |-> F, ocr |-> o] :
        F \in SUBSET faulty,
        o \in IF content.valid /\ image_resolvable(content.data)
              THEN SeqOCR
              ELSE {[A |-> EngineDown, B |-> EngineDown]} }

SeqInit ==
    /\ config \in [ocr_confidence_threshold : {DefaultThreshold},
                   duplicate_detection_enabled : BOOLEAN]
    /\ OCRIdle
    /\ hash_file \in {Store("missing", {}), Store("corrupt", {})}
    /\ processed_hashes = load_processed_hashes(hash_file)
    /\ dd_last = NoCall
    /\ dd_prev = NoCall
    /\ quality_indicator = QualityInit
    /\ com_interface = ComInit
    /\ gui \in [present : BOOLEAN, processing : {FALSE}]
    /\ input_files \in SeqDirectories
    /\ faulty \in FaultyOps
    /\ batch = BatchInit
    /\ pass = NoPass
    /\ prev = NoPass
    /\ tally = TallyInit
    /\ ParIdle

\* run_batch_mode, or StoplightGUI.start_processing and its thread: the
\* call of process_all_inputs up to the for loop.
StartBatch ==
    /\ batch.pc = "idle"
    /\ gui' = [gui EXCEPT !.processing = gui.present]
    /\ batch' = [BatchInit EXCEPT
                   !.pc = IF input_files = <<>> THEN "done" ELSE "loop"]
    /\ UNCHANGED <<par_vars, config, ocr_vars, dd_vars, quality_indicator, com_interface,
                   input_files, faulty,
                   pass, prev, tally>>

\* StoplightGUI.stop_processing: the user presses Stop.
StopProcessing ==
    /\ gui.present /\ gui.processing
    /\ gui' = [gui EXCEPT !.processing = FALSE]
    /\ UNCHANGED <<par_vars, config, ocr_vars, dd_vars, quality_indicator, com_interface,
                   input_files, faulty,
                   batch, pass, prev, tally>>

\* Mutant: the loop also ends at the first failed record.
LoopContinues_until_failure ==
    /\ batch.pc = "loop"
    /\ batch.idx <= Len(input_files)
    /\ ~(gui.present /\ ~gui.processing)
    /\ batch.failed_count = 0

\* The for loop may take its next file.
LoopContinues ==
    /\ batch.pc = "loop"
    /\ batch.idx <= Len(input_files)
    /\ ~(gui.present /\ ~gui.processing)

\* Did the pass call save_project and get failure back?
SaveFailed(p, env) ==
    /\ Called(p.calls, "save_project")
    /\ ~com_call(p.com, "save_project", env.faults)

\* One iteration of the for loop: a pass on the next file.
ProcessNextFile ==
    /\ LoopContinues
    /\ \E env \in PassEnvs(input_files[batch.idx]) :
         \E p \in {process_single_lot(
                      StartPass(quality_indicator, processed_hashes, hash_file,
                                com_interface), env)} :
             /\ quality_indicator' = p.quality
             /\ processed_hashes' = p.hashes
             /\ hash_file' = p.file
             /\ com_interface' = p.com
             /\ batch' = [batch EXCEPT
                    !.idx = @ + 1,
                    !.processed_count = IF p.ret THEN @ + 1 ELSE @,
                    !.failed_count = IF p.ret THEN @ ELSE @ + 1]
             /\ prev' = pass
             /\ pass' = [file |-> batch.idx, ret |-> p.ret,
                         calls |-> p.calls, raw |-> p.raw,
                         handed |-> p.handed, data |-> p.data,
                         faults |-> env.faults]
             /\ tally' = [passes |-> tally.passes + 1,
                          returned_false |-> tally.returned_false
                                               + (IF p.ret THEN 0 ELSE 1),
                          save_failed |-> tally.save_failed
                                            + (IF SaveFailed(p, env) THEN 1 ELSE 0)]
    /\ UNCHANGED <<par_vars, config, ocr_vars, dd_last, dd_prev, gui, input_files,
                   faulty>>

\* Mutant: the failures are compared with the files processed.
final_health_of_processed(failed_count, total_files, processed) ==
    IF failed_count = 0 THEN "GREEN"
    ELSE IF failed_count < processed THEN "YELLOW"
    ELSE "RED"

\* Lines 1305-1311: the final status.
final_health(failed_count, total_files, processed) ==
    IF failed_count = 0 THEN "GREEN"
    ELSE IF failed_count < total_files THEN "YELLOW"
    ELSE "RED"

final_message(failed_count, total_files) ==
    IF failed_count = 0 THEN Message("", "All lots processed successfully")
    ELSE IF failed_count < total_files
    THEN Message("", "lots failed processing")
    ELSE Message("", "All lots failed processing")

\* Mutant: a batch without failures leaves a warning of a pass standing.
FinishBatch_keeps_warning ==
    /\ batch.pc = "loop"
    /\ ~LoopContinues
    /\ quality_indicator' =
          IF batch.failed_count = 0 /\ quality_indicator.system_health = "YELLOW"
          THEN quality_indicator
          ELSE set_system_health(quality_indicator,
                   final_health(batch.failed_count, Len(input_files),
                                batch.processed_count + batch.failed_count),
                   final_message(batch.failed_count, Len(input_files)))
    /\ batch' = [batch EXCEPT !.pc = "done"]
    /\ gui' = [gui EXCEPT !.processing = FALSE]
    /\ UNCHANGED <<par_vars, config, ocr_vars, dd_vars, com_interface, input_files, faulty,
                   pass,
                   prev, tally>>

\* The loop ends (the list is exhausted, or the user has stopped the batch)
\* and process_all_inputs sets the final status and returns; in GUI mode
\* run_automation then clears the processing flag.
FinishBatch ==
    /\ batch.pc = "loop"
    /\ ~LoopContinues
    /\ quality_indicator' = set_system_health(quality_indicator,
           final_health(batch.failed_count, Len(input_files),
                        batch.processed_count + batch.failed_count),
           final_message(batch.failed_count, Len(input_files)))
    /\ batch' = [batch EXCEPT !.pc = "done"]
    /\ gui' = [gui EXCEPT !.processing = FALSE]
    /\ UNCHANGED <<par_vars, config, ocr_vars, dd_vars, com_interface, input_files, faulty,
                   pass,
                   prev, tally>>

SeqNext == StartBatch \/ StopProcessing \/ ProcessNextFile \/ FinishBatch

SpecSeq == SeqInit /\ [][SeqNext]_vars

(***************************************************************************)
(* The sequential batch: the claims.                                       *)
(***************************************************************************)
BatchDone == batch.pc = "done" /\ input_files # <<>>

\* The last two passes were on files holding the same valid record, the
\* first of them on the first file of the run, and no operation failed in
\* either.
SameRecordTwice ==
    /\ config.duplicate_detection_enabled
    /\ prev.file = 1
    /\ pass.file = 2
    /\ input_files[1].valid
    /\ input_files[2] = input_files[1]
    /\ prev.faults = {}
    /\ pass.faults = {}

\* C5: in a sequential run with duplicate detection enabled and working
\* downstream calls, when the same valid record is submitted twice, the
\* first pass returns success and marks its fingerprint, and the second
\* pass stops at the duplicate check (no default-fill, extraction,
\* downstream call or new mark), returns success and leaves
\* data_quality = YELLOW.
C5_SecondPassStopsAtDuplicateCheck ==
    SameRecordTwice =>
        /\ prev.ret
        /\ Called(prev.calls, "mark_as_processed")
        /\ pass.ret
        /\ pass.calls = <<"load_json", "is_duplicate">>
        /\ quality_indicator.data_quality = "YELLOW"

\* The records failed: the passes that returned failure.
FailedRecords == tally.returned_false

\* The health the spec's rule gives with the counts taken over `total`.
HealthOver(total) ==
    IF FailedRecords = 0 THEN "GREEN"
    ELSE IF FailedRecords < total THEN "YELLOW"
    ELSE "RED"

\* C7, as stated: after process_all_inputs on a non-empty sequential batch,
\* system_health is GREEN if no processed record failed, YELLOW if at least
\* one but not all processed records failed, RED if every processed record
\* failed, the counts being over the records actually processed, also when
\* the user stops the batch early.
C7_HealthOverProcessedRecords ==
    BatchDone => quality_indicator.system_health = HealthOver(tally.passes)

\* C7, amended: after process_all_inputs on a non-empty sequential batch,
\* system_health is GREEN if no processed record failed, YELLOW if at least
\* one record failed and the failures are fewer than the input files found,
\* RED if the failures are as many as the input files found; a record
\* failed exactly when its pass returned failure, and the failures are
\* compared with the number of files found also when the user stops the
\* batch early.
C7_HealthOverInputFiles ==
    BatchDone =>
        /\ batch.failed_count = FailedRecords
        /\ batch.processed_count + batch.failed_count = tally.passes
        /\ quality_indicator.system_health = HealthOver(Len(input_files))

\* A batch the user stopped after its only pass so far had failed.
C7_Witness ==
    /\ BatchDone
    /\ tally.passes = 1
    /\ FailedRecords = 1
    /\ Len(input_files) = 2
    /\ quality_indicator.system_health = "YELLOW"

\* C8: a record whose save_project call returns failure is a failed
\* record: its pass returns failure with a FAILED outcome, so a sequential
\* batch of 5 records in which 2 fail at save ends with
\* system_health = YELLOW and one in which all 5 fail at save ends with
\* system_health = RED.
C8_SaveFailureFailsTheRecord ==
    /\ (pass.file >= 1 /\ "save_project" \in pass.faults
        /\ Called(pass.calls, "save_project"))
         => /\ ~pass.ret
            /\ quality_indicator.processed_lots # <<>>
            /\ quality_indicator.processed_lots[
                   Len(quality_indicator.processed_lots)].status = "FAILED"
    /\ (BatchDone /\ tally.passes = 5 /\ tally.save_failed = 2
        /\ faulty = {"save_project"})
         => quality_indicator.system_health = "YELLOW"
    /\ (BatchDone /\ tally.passes = 5 /\ tally.save_failed = 5)
         => quality_indicator.system_health = "RED"

\* C12: after any sequence of pipeline passes, the outcome log holds
\* exactly one entry per record the pipeline finished with: SUCCESS for a
\* pass that returned success (a duplicate skip included), FAILED for a
\* pass that returned failure (a record rejected at validation and a pass
\* stopped at connect or open-template included).
C12_OneOutcomeEntryPerPass ==
    pass.file >= 1 =>
        /\ Len(quality_indicator.processed_lots) = tally.passes
        /\ quality_indicator.processed_lots[
               Len(quality_indicator.processed_lots)].status
             = (IF pass.ret THEN "SUCCESS" ELSE "FAILED")

\* C13: in a sequential batch with no user cancel, every input file is
\* passed to the pipeline exactly once, in sorted file order, whatever the
\* outcome of earlier records; the success and failure counts sum to the
\* number of input files.  As a property of every step: the k-th pass is on
\* the k-th file of the sorted list, the counts sum to the passes made, and
\* a loop that ends while the user has not cancelled has made a pass on
\* every file.
C13_EveryFileOnceInOrder ==
    [][ /\ pass'.file = tally'.passes
        /\ batch'.processed_count + batch'.failed_count = tally'.passes
        /\ pass' # pass => pass'.file = pass.file + 1
        /\ (/\ batch.pc = "loop"
            /\ batch'.pc = "done"
            /\ ~(gui.present /\ ~gui.processing))
             => /\ tally.passes = Len(input_files)
                /\ batch.processed_count + batch.failed_count = Len(input_files)
      ]_vars

\* A batch without a GUI whose first record failed by an exception and
\* whose second record was processed all the same.
C13_Witness ==
    /\ batch.pc = "done"
    /\ ~gui.present
    /\ Len(input_files) = 2
    /\ prev.file = 1 /\ ~prev.ret /\ "mkdir" \in prev.faults
    /\ pass.file = 2 /\ pass.ret
    /\ batch.processed_count = 1 /\ batch.failed_count = 1

\* The downstream calls and the output directory work in the pass.
DownstreamWorks(faults) ==
    faults \subseteq {"read_image_check", "read_image_mark", "store_open",
                      "store_write"}

\* The first pass of a run on a fresh store, on a valid record without a
\* resolvable floor-plan image, with working downstream calls.
FirstPassWithoutImage ==
    /\ pass.file = 1
    /\ input_files[1].valid
    /\ has(input_files[1].data, "lot_id")
    /\ ~image_resolvable(input_files[1].data)
    /\ DownstreamWorks(pass.faults)

\* C15: for a valid, non-duplicate record without a resolvable floor-plan
\* image and with working downstream calls, one pipeline pass on a fresh
\* store never invokes the extractor, returns success with a SUCCESS
\* outcome entry, marks the record, and leaves data_quality GREEN if
\* default-fill reported nothing missing and YELLOW otherwise.
C15_PassWithoutImage ==
    FirstPassWithoutImage =>
        /\ ~Called(pass.calls, "extract_text")
        /\ pass.ret
        /\ quality_indicator.processed_lots
             = <<[lot_id |-> input_files[1].data.lot_id, status |-> "SUCCESS"]>>
        /\ Called(pass.calls, "mark_as_processed")
        /\ content_hash(pass.data) \in processed_hashes
        /\ quality_indicator.data_quality
             = (IF fill_warnings(input_files[1].data) = {}
                THEN "GREEN" ELSE "YELLOW")

\* Such a pass on a record for which defaults were filled.
C15_Witness ==
    /\ FirstPassWithoutImage
    /\ fill_warnings(input_files[1].data) # {}
    /\ pass.ret
    /\ quality_indicator.data_quality = "YELLOW"

\* A pass has just returned and the loop has not gone on: the indicator is
\* as the pass left it.
PassJustReturned == batch.pc = "loop" /\ pass.file >= 1

\* The pass called operation op and the call failed.
FailedIn(op) == Called(pass.calls, op) /\ op \in pass.faults

SetDataOps ==
    {"set_project_info", "set_building_data", "set_windows", "set_hvac_system"}

AfterTemplateOps ==
    SetDataOps \cup {"calculate", "save_project", "export_report",
                     "mark_as_processed"}

\* In the pass, every call of a comes before every call of b.
CalledBefore(a, b) ==
    \A i, j \in 1..Len(pass.calls) :
        (pass.calls[i] = a /\ pass.calls[j] = b) => i < j

\* C21: in a pipeline pass, a failure of connect or of open_template sets
\* system_health to RED and ends the pass with failure before any set-data,
\* calculate, save, export or mark_as_processed call; a failure of a
\* set-data operation or of calculate sets system_health to YELLOW and the
\* pass goes on through calculate, save and export to mark_as_processed.
C21_BlockingAndPartialFailures ==
    PassJustReturned =>
        /\ (FailedIn("connect") \/ FailedIn("open_template")) =>
              /\ quality_indicator.system_health = "RED"
              /\ ~pass.ret
              /\ \A op \in AfterTemplateOps : ~Called(pass.calls, op)
        /\ ((\E op \in SetDataOps : FailedIn(op)) \/ FailedIn("calculate")) =>
              /\ quality_indicator.system_health = "YELLOW"
              /\ \A op \in {"calculate", "save_project", "export_report",
                             "mark_as_processed"} : Called(pass.calls, op)
              /\ \A op \in SetDataOps : CalledBefore(op, "calculate")
              /\ CalledBefore("calculate", "save_project")
              /\ CalledBefore("save_project", "export_report")
              /\ CalledBefore("export_report", "mark_as_processed")
              /\ pass.ret

\* A pass in which a set-data call failed has gone on to mark the record.
C21_Witness ==
    /\ PassJustReturned
    /\ \E op \in SetDataOps : FailedIn(op)
    /\ quality_indicator.system_health = "YELLOW"
    /\ Called(pass.calls, "mark_as_processed")

\* A pass stopped at open_template.
C21_WitnessTemplate ==
    /\ PassJustReturned
    /\ FailedIn("open_template")
    /\ quality_indicator.system_health = "RED"
    /\ ~pass.ret

StoreFaults == {"store_open", "store_write"}

\* Pass p called mark_as_processed and the write of the store failed in it.
MarkedWithoutStore(p) ==
    /\ p.file >= 1
    /\ Called(p.calls, "mark_as_processed")
    /\ p.faults \cap StoreFaults # {}

\* is_duplicate, were it called now with detection enabled on the dict that
\* pass p handed to mark_as_processed.
KnownNow(p) ==
    \A readable \in BOOLEAN :
        is_duplicate(p.data, processed_hashes, TRUE, readable)

\* C24: when writing the fingerprint store fails, mark_as_processed still
\* returns with the record's fingerprints in the in-memory set: the pass
\* ends with success and a SUCCESS outcome, and is_duplicate is true for the
\* record then and after the next pass; when the store cannot be read at
\* startup the run starts with an empty set.
C24_StoreFailuresAreNotFatal ==
    /\ MarkedWithoutStore(pass) =>
          /\ pass.ret
          /\ quality_indicator.processed_lots[
                 Len(quality_indicator.processed_lots)].status = "SUCCESS"
          /\ content_hash(pass.data) \in processed_hashes
          /\ KnownNow(pass)
    /\ MarkedWithoutStore(prev) => KnownNow(prev)
    /\ (batch.pc = "idle" /\ hash_file.state = "corrupt") =>
          processed_hashes = {}

\* The store could not be read at startup and could not be written in the
\* first pass; the second pass, on the same record, stops at the duplicate
\* check.
C24_Witness ==
    /\ config.duplicate_detection_enabled
    /\ MarkedWithoutStore(prev)
    /\ prev.file = 1 /\ pass.file = 2
    /\ hash_file.state = "corrupt"
    /\ pass.calls = <<"load_json", "is_duplicate">>
    /\ pass.ret

\* The last pass ran extract_text and the result was not accepted.
ExtractionNotAccepted ==
    /\ pass.file >= 1
    /\ Called(pass.calls, "extract_text")
    /\ ~Called(pass.calls, "enhance_data_with_ocr")

\* C25: when a record has a resolvable image and extract_text returns
\* accepted = false, the pass sets data_quality = YELLOW, runs no field
\* recovery (the record is as default-fill left it), and, the downstream
\* calls working, hands the record over and marks it.
C25_UnacceptedExtraction ==
    ExtractionNotAccepted =>
        /\ image_resolvable(pass.raw)
        /\ quality_indicator.data_quality = "YELLOW"
        /\ pass.data = validate_and_fill_defaults(pass.raw)
        /\ DownstreamWorks(pass.faults) =>
              /\ pass.handed = pass.data
              /\ \A op \in {"open_template", "set_building_data", "calculate",
                             "save_project", "export_report",
                             "mark_as_processed"} : Called(pass.calls, op)
              /\ content_hash(pass.data) \in processed_hashes
              /\ pass.ret

\* The record's floor area of 0 was not filled from the image and the
\* record was handed over and marked as it was.
C25_Witness ==
    /\ ExtractionNotAccepted
    /\ pop(pop(pass.raw, "lot_id"), "floor_plan_image") = FalsyContent
    /\ pass.handed.building_data.conditioned_floor_area = 0
    /\ Called(pass.calls, "mark_as_processed")
    /\ quality_indicator.data_quality = "YELLOW"

\* In calls, a is called, and before every call of b.
Precedes(calls, a, b) ==
    /\ Called(calls, a)
    /\ \A i, j \in 1..Len(calls) : (calls[i] = a /\ calls[j] = b) => i < j

StoppedAtDuplicateCheck(p) == p.calls = <<"load_json", "is_duplicate">>

\* C27: mark_as_processed is called only at the end of a pass in which the
\* duplicate check was negative and open_template succeeded on a connected
\* interface, after save and export, and that pass returns success; a pass
\* that returns failure, or that stops at the duplicate check, leaves the
\* fingerprint set as it was, so a record whose pass failed is not stopped
\* at the duplicate check when the next file submits it again.
C27_MarkOnlyAfterFullPass ==
    [][ pass' # pass =>
          /\ Called(pass'.calls, "mark_as_processed") =>
                /\ pass'.ret
                /\ Precedes(pass'.calls, "is_duplicate", "open_template")
                /\ Precedes(pass'.calls, "open_template", "save_project")
                /\ Precedes(pass'.calls, "save_project", "export_report")
                /\ Precedes(pass'.calls, "export_report", "mark_as_processed")
                /\ com_interface'.connected /\ com_interface'.project
                /\ "open_template" \notin pass'.faults
                /\ SubSeq(pass'.calls, Len(pass'.calls) - 1, Len(pass'.calls))
                     = <<"mark_as_processed", "add_processed_lot">>
          /\ (~pass'.ret \/ StoppedAtDuplicateCheck(pass')) =>
                /\ ~Called(pass'.calls, "mark_as_processed")
                /\ processed_hashes' = processed_hashes
          /\ (/\ pass.file = 1 /\ ~pass.ret /\ input_files[1].valid
              /\ input_files[2] = input_files[1]) =>
                ~StoppedAtDuplicateCheck(pass')
      ]_vars

\* The first pass on a record failed at connect; the second pass, on the
\* same record, went through and marked it.
C27_Witness ==
    /\ config.duplicate_detection_enabled
    /\ prev.file = 1 /\ ~prev.ret /\ Called(prev.calls, "connect")
    /\ pass.file = 2 /\ input_files[2] = input_files[1]
    /\ pass.ret /\ Called(pass.calls, "mark_as_processed")
    /\ content_hash(pass.data) \in processed_hashes

\* The last pass raised system_health to YELLOW: a set-data call or
\* calculate failed in it.
LastPassWarned ==
    pass.file >= 1 /\ \E op \in SetDataOps \cup {"calculate"} : FailedIn(op)

\* C28: at the end of process_all_inputs on a non-empty batch system_health
\* depends only on how many passes returned failure: GREEN when none did,
\* also when a pass had raised YELLOW for a set-data or calculate failure,
\* and not GREEN when one did; with no input files process_all_inputs
\* returns and the indicator is as it was.
C28_FinalHealthFromFailureCount ==
    /\ BatchDone =>
          /\ tally.returned_false = 0 =>
                quality_indicator.system_health = "GREEN"
          /\ tally.returned_false > 0 =>
                quality_indicator.system_health \in {"YELLOW", "RED"}
          /\ quality_indicator.system_health =
                final_health(tally.returned_false, Len(input_files),
                             tally.passes)
    /\ (batch.pc = "done" /\ input_files = <<>>) =>
          quality_indicator = QualityInit

\* Every pass returned success, the last one after a set-data or calculate
\* failure, and the batch ended GREEN.
C28_Witness ==
    /\ BatchDone
    /\ tally.returned_false = 0
    /\ LastPassWarned
    /\ quality_indicator.system_health = "GREEN"

\* load_json rejected the file of pass p.
RejectedAtValidation(p) == p.calls = <<"load_json">>

\* Pass p raised data_quality to YELLOW: it stopped at the duplicate check,
\* default-fill reported something missing, or the extraction was not
\* accepted.
RaisedDataWarning(p) ==
    \/ StoppedAtDuplicateCheck(p)
    \/ /\ Called(p.calls, "validate_and_fill_defaults")
       /\ fill_warnings(p.raw) # {}
    \/ /\ Called(p.calls, "extract_text")
       /\ ~Called(p.calls, "enhance_data_with_ocr")

\* C29: every pass that gets past validation first resets data_quality to
\* GREEN, so after it data_quality is YELLOW exactly when that pass raised
\* it, whatever an earlier record had left, and the current lot is that
\* record's; a record rejected at validation leaves data_quality, the
\* current lot and the status message as they were.
C29_DataQualityOfLastValidatedRecord ==
    [][ pass' # pass =>
          IF RejectedAtValidation(pass')
          THEN /\ quality_indicator'.data_quality
                    = quality_indicator.data_quality
               /\ quality_indicator'.current_lot
                    = quality_indicator.current_lot
               /\ quality_indicator'.status_message
                    = quality_indicator.status_message
          ELSE /\ quality_indicator'.data_quality
                    = (IF RaisedDataWarning(pass') THEN "YELLOW" ELSE "GREEN")
               /\ quality_indicator'.current_lot = pass'.raw.lot_id
      ]_vars

\* The first record left data_quality YELLOW and the second, complete,
\* record has put it back to GREEN.
C29_Witness ==
    /\ prev.file = 1 /\ RaisedDataWarning(prev)
    /\ pass.file = 2 /\ ~RejectedAtValidation(pass) /\ ~RaisedDataWarning(pass)
    /\ quality_indicator.data_quality = "GREEN"

\* The first record left data_quality YELLOW and the second was rejected at
\* validation: the indicator still shows the first.
C29_WitnessRejected ==
    /\ prev.file = 1 /\ RaisedDataWarning(prev)
    /\ pass.file = 2 /\ RejectedAtValidation(pass)
    /\ quality_indicator.data_quality = "YELLOW"
    /\ quality_indicator.current_lot = prev.raw.lot_id

\* The last pass got to the downstream hand-off.
HandedOver == pass.file >= 1 /\ pass.handed # EmptyDict

\* The record as default-fill leaves it.
Filled == validate_and_fill_defaults(pass.raw)

\* C30: default-fill runs before extraction, so a record whose
\* building_data lacks conditioned_floor_area, or that lacks the hvac
\* section, is handed over with the default (2000.0, 2.5 tons) and never
\* with a value read off the image; what is handed over differs from what
\* default-fill left only in a floor area that the input held with a falsy
\* value, or in the tonnage of a system that the input supplied without a
\* true tonnage, and only after an accepted extraction.
C30_DefaultsBeforeExtraction ==
    HandedOver =>
        /\ (\/ ~has(pass.raw, "building_data")
             \/ ~has(pass.raw.building_data, "conditioned_floor_area")) =>
              pass.handed.building_data.conditioned_floor_area = DefaultFloorArea
        /\ ~has(pass.raw, "hvac") => pass.handed.hvac = defaults.hvac
        /\ pass.handed.building_data # Filled.building_data =>
              /\ Called(pass.calls, "enhance_data_with_ocr")
              /\ has(pass.raw, "building_data")
              /\ has(pass.raw.building_data, "conditioned_floor_area")
              /\ pass.raw.building_data.conditioned_floor_area = 0
        /\ DOMAIN pass.handed.hvac = DOMAIN Filled.hvac
        /\ \A system_id \in DOMAIN pass.handed.hvac :
              pass.handed.hvac[system_id] # Filled.hvac[system_id] =>
                  /\ Called(pass.calls, "enhance_data_with_ocr")
                  /\ has(pass.raw, "hvac")
                  /\ system_id \in DOMAIN pass.raw.hvac
                  /\ tonnage_missing(pass.raw.hvac[system_id])

\* A record without floor area and without hvac section, whose image reads
\* "2,402 sq ft" and "3 ton" with an accepted extraction, is handed over
\* with the defaults.
C30_Witness ==
    /\ HandedOver
    /\ Called(pass.calls, "enhance_data_with_ocr")
    /\ has(pass.raw, "building_data")
    /\ ~has(pass.raw.building_data, "conditioned_floor_area")
    /\ ~has(pass.raw, "hvac")
    /\ pass.handed.building_data.conditioned_floor_area = DefaultFloorArea
    /\ pass.handed.hvac.system1.tonnage = DefaultTonnage

\* A floor area of 0 and a system without tonnage are filled from the image.
C30_WitnessFilled ==
    /\ HandedOver
    /\ pop(pop(pass.raw, "lot_id"), "floor_plan_image") = FalsyContent
    /\ pass.handed.building_data.conditioned_floor_area = 24020
    /\ pass.handed.hvac.system1.tonnage = 30

(***************************************************************************)
(* The detector alone: any sequence of is_duplicate and mark_as_processed  *)
(* calls on any records, over any store left by an earlier run.            *)
(***************************************************************************)
DedupRecords ==
    { MakeRecord(lc[1], lc[2], img) :
        lc \in {<<"Lot101", SampleContent>>, <<"Lot102", SampleContent>>,
                <<"Lot101", BareContent>>},
        img \in {Absent, "floorplans/Lot101_plan.png",
                 "floorplans/Lot101_copy.png", "floorplans/missing.png"} }

\* Reading the image can only fail where an image is read.
Readable(r) == IF image_resolvable(r) THEN BOOLEAN ELSE {TRUE}


\* The stores an earlier run may have left.
InitialStores ==
    { Store("missing", {}), Store("corrupt", {}), Store("ok", {}),
      Store("ok", {md5([bytes |-> "plan-B"])}) }

DedupIdle ==
    /\ hash_file = Store("missing", {})
    /\ processed_hashes = {}
    /\ dd_last = NoCall
    /\ dd_prev = NoCall

DedupInit ==
    /\ config \in [ocr_confidence_threshold : {DefaultThreshold},
                   duplicate_detection_enabled : BOOLEAN]
    /\ hash_file \in InitialStores
    /\ processed_hashes = load_processed_hashes(hash_file)
    /\ dd_last = NoCall
    /\ dd_prev = NoCall
    /\ OCRIdle
    /\ SeqIdle
    /\ ParIdle

IsDuplicate ==
    \E r \in DedupRecords : \E readable \in Readable(r) :
        /\ dd_prev' = dd_last
        /\ dd_last' = [op |-> "is_duplicate", rec |-> r,
                       ret |-> is_duplicate(r, processed_hashes,
                                   config.duplicate_detection_enabled, readable)]
        /\ UNCHANGED <<par_vars, config, ocr_vars, processed_hashes, hash_file, seq_vars>>

MarkAsProcessed ==
    \E r \in DedupRecords : \E readable \in Readable(r), outcome \in SaveOutcomes :
        LET m == mark_as_processed(r, processed_hashes, hash_file,
                                   readable, outcome)
        IN  /\ processed_hashes' = m.hashes
            /\ hash_file' = m.file
            /\ dd_prev' = dd_last
            /\ dd_last' = [op |-> "mark_as_processed", rec |-> r, ret |-> TRUE]
            /\ UNCHANGED <<par_vars, config, ocr_vars, seq_vars>>

DedupNext == IsDuplicate \/ MarkAsProcessed

SpecDedup == DedupInit /\ [][DedupNext]_vars

(***************************************************************************)
(* Claims about the detector, under SpecDedup.                             *)
(***************************************************************************)
\* C4: with detection enabled, from any state of the fingerprint set,
\* mark_as_processed(r) immediately followed by is_duplicate(r) on the same
\* record returns true, with and without a resolvable floor-plan image.
C4_MarkThenIsDuplicate ==
    ( /\ config.duplicate_detection_enabled
      /\ dd_prev.op = "mark_as_processed"
      /\ dd_last.op = "is_duplicate"
      /\ dd_last.rec = dd_prev.rec )
        => dd_last.ret = TRUE

\* C4 witness: the pair of calls on a record with a resolvable image, and
\* (C4_WitnessNoImage) on one without.
C4_Witness ==
    /\ config.duplicate_detection_enabled
    /\ dd_prev.op = "mark_as_processed" /\ dd_last.op = "is_duplicate"
    /\ dd_last.rec = dd_prev.rec
    /\ image_resolvable(dd_last.rec)
    /\ dd_last.ret = TRUE

C4_WitnessNoImage ==
    /\ config.duplicate_detection_enabled
    /\ dd_prev.op = "mark_as_processed" /\ dd_last.op = "is_duplicate"
    /\ dd_last.rec = dd_prev.rec
    /\ ~image_resolvable(dd_last.rec)
    /\ dd_last.ret = TRUE


\* The two records are equal except for their lot_id.
DiffersOnlyInLotId(r1, r2) ==
    /\ r1.lot_id # r2.lot_id
    /\ pop(r1, "lot_id") = pop(r2, "lot_id")

\* C14: in every state of the fingerprint set, is_duplicate gives the same
\* answer for two records that differ only in lot_id; in particular after
\* mark_as_processed(r), is_duplicate is true for every record equal to r
\* except for its lot_id.
C14_LotIdDoesNotMatter ==
    \A r1, r2 \in DedupRecords :
        DiffersOnlyInLotId(r1, r2) =>
            \A readable \in Readable(r1) :
                /\ is_duplicate(r1, processed_hashes,
                                config.duplicate_detection_enabled, readable)
                     = is_duplicate(r2, processed_hashes,
                                    config.duplicate_detection_enabled, readable)
                /\ (/\ config.duplicate_detection_enabled
                    /\ dd_last.op = "mark_as_processed"
                    /\ dd_last.rec = r1)
                     => is_duplicate(r2, processed_hashes, TRUE, readable)

\* Lot101's sample record was marked, and Lot102's, which has no image
\* either, is then reported duplicate.
C14_Witness ==
    /\ config.duplicate_detection_enabled
    /\ dd_prev.op = "mark_as_processed"
    /\ dd_last.op = "is_duplicate"
    /\ DiffersOnlyInLotId(dd_prev.rec, dd_last.rec)
    /\ ~image_resolvable(dd_last.rec)
    /\ dd_last.ret = TRUE

\* The digest calculate_hash gives for the record's image at this call.
ImageDigest(r, readable) == calculate_hash(r.floor_plan_image, readable)

\* C17: with detection enabled, is_duplicate(r) is true exactly when r's
\* content fingerprint is in the set or r has a resolvable image whose
\* fingerprint, as calculate_hash computes it at the call, is in the set;
\* with detection disabled it is false.  Every is_duplicate call that
\* returned true was made with detection enabled on a record one of whose
\* two fingerprints is in the set.
C17_DuplicateIffEitherFingerprintKnown ==
    /\ \A r \in DedupRecords : \A readable \in Readable(r) :
          LET d == is_duplicate(r, processed_hashes,
                       config.duplicate_detection_enabled, readable)
          IN  IF config.duplicate_detection_enabled
              THEN d <=> \/ content_hash(r) \in processed_hashes
                         \/ /\ image_resolvable(r)
                            /\ ImageDigest(r, readable) \in processed_hashes
              ELSE ~d
    /\ (dd_last.op = "is_duplicate" /\ dd_last.ret = TRUE) =>
          /\ config.duplicate_detection_enabled
          /\ \/ content_hash(dd_last.rec) \in processed_hashes
             \/ /\ image_resolvable(dd_last.rec)
                /\ ImageDigest(dd_last.rec, TRUE) \in processed_hashes
    /\ (dd_last.op = "is_duplicate" /\ ~config.duplicate_detection_enabled)
          => dd_last.ret = FALSE

\* A record whose content is new and whose image was marked with another
\* record is reported duplicate.
C17_Witness ==
    /\ config.duplicate_detection_enabled
    /\ dd_prev.op = "mark_as_processed"
    /\ dd_last.op = "is_duplicate"
    /\ content_hash(dd_last.rec) \notin processed_hashes
    /\ image_resolvable(dd_last.rec)
    /\ ImageDigest(dd_last.rec, TRUE) \in processed_hashes
    /\ dd_last.ret = TRUE

\* A record whose image is new and whose content was marked is reported
\* duplicate.
C17_WitnessNewImage ==
    /\ config.duplicate_detection_enabled
    /\ dd_last.op = "is_duplicate"
    /\ content_hash(dd_last.rec) \in processed_hashes
    /\ image_resolvable(dd_last.rec)
    /\ ImageDigest(dd_last.rec, TRUE) \notin processed_hashes
    /\ dd_last.ret = TRUE

\* C18: after the startup load every step of a run leaves the in-memory
\* fingerprint set a superset of what it was: an is_duplicate call leaves it
\* as it is, and a mark_as_processed call only adds to it.
C18_SetOnlyGrows ==
    [][ /\ processed_hashes \subseteq processed_hashes'
        /\ dd_last'.op = "is_duplicate" => processed_hashes' = processed_hashes
      ]_vars

\* Two records were marked one after the other; the fingerprint loaded at
\* startup and the one added by the first call are still in the set.
C18_Witness ==
    /\ dd_prev.op = "mark_as_processed"
    /\ dd_last.op = "mark_as_processed"
    /\ content_hash(dd_prev.rec) # content_hash(dd_last.rec)
    /\ md5([bytes |-> "plan-B"]) \in processed_hashes
    /\ content_hash(dd_prev.rec) \in processed_hashes
    /\ content_hash(dd_last.rec) \in processed_hashes

(***************************************************************************)
(* Threads inside DuplicateDetector.mark_as_processed.  The detector has   *)
(* no lock.  A thread's call is a chain of steps, each atomic under the    *)
(* interpreter lock: add the image digest, add the content digest, open    *)
(* the store for writing (which truncates it), build the list handed to    *)
(* json.dump, and close the file (which flushes what was written).         *)
(***************************************************************************)
Workers == {"w1", "w2"}

MarkRecords ==
    { MakeRecord("Lot101", SampleContent, "floorplans/Lot101_plan.png"),
      MakeRecord("Lot102", NoDuctContent, "floorplans/Lot102_plan.png"),
      MakeRecord("Lot103", BareContent, Absent) }

MarkInit ==
    /\ config = [ocr_confidence_threshold |-> DefaultThreshold,
                 duplicate_detection_enabled |-> TRUE]
    /\ OCRIdle
    /\ SeqIdle
    /\ hash_file \in InitialStores
    /\ processed_hashes = load_processed_hashes(hash_file)
    /\ dd_last = NoCall
    /\ dd_prev = NoCall
    /\ marker \in {m \in [Workers -> [pc : {"image"}, input_data : MarkRecords,
                                     dumped : {{}}]] :
                     \A v, w \in Workers :
                         v # w => m[v].input_data # m[w].input_data}
    /\ par = ParInit
    /\ futures = <<>>
    /\ results = <<>>

MarkUnchanged ==
    UNCHANGED <<config, ocr_vars, dd_last, dd_prev, seq_vars, par, futures,
                results>>

\* Lines 603-608: the image digest, if there is an image.
MarkImage(w) ==
    /\ marker[w].pc = "image"
    /\ processed_hashes' =
           IF /\ image_resolvable(marker[w].input_data)
              /\ calculate_hash(marker[w].input_data.floor_plan_image, TRUE)
                     # EmptyDigest
           THEN processed_hashes
                \cup {calculate_hash(marker[w].input_data.floor_plan_image, TRUE)}
           ELSE processed_hashes
    /\ marker' = [marker EXCEPT ![w].pc = "content"]
    /\ UNCHANGED hash_file
    /\ MarkUnchanged

\* Lines 610-617: the content digest.
MarkContent(w) ==
    /\ marker[w].pc = "content"
    /\ processed_hashes' =
           processed_hashes \cup {content_hash(marker[w].input_data)}
    /\ marker' = [marker EXCEPT ![w].pc = "open"]
    /\ UNCHANGED hash_file
    /\ MarkUnchanged

\* Line 557: open(self.hash_file, 'w') leaves an empty file.
OpenStore(w) ==
    /\ marker[w].pc = "open"
    /\ hash_file' = Store("corrupt", {})
    /\ marker' = [marker EXCEPT ![w].pc = "dump"]
    /\ UNCHANGED processed_hashes
    /\ MarkUnchanged

\* Line 558: list(self.processed_hashes) is taken and serialised into the
\* file object's buffer.
DumpStore(w) ==
    /\ marker[w].pc = "dump"
    /\ marker' = [marker EXCEPT ![w].pc = "close", ![w].dumped = processed_hashes]
    /\ UNCHANGED <<processed_hashes, hash_file>>
    /\ MarkUnchanged

\* Leaving the with block of line 557: the buffer reaches the file, and
\* mark_as_processed returns.
CloseStore(w) ==
    /\ marker[w].pc = "close"
    /\ hash_file' = Store("ok", marker[w].dumped)
    /\ marker' = [marker EXCEPT ![w].pc = "returned"]
    /\ UNCHANGED processed_hashes
    /\ MarkUnchanged

MarkNext ==
    \E w \in Workers :
        \/ MarkImage(w)
        \/ MarkContent(w)
        \/ OpenStore(w)
        \/ DumpStore(w)
        \/ CloseStore(w)

SpecMark == MarkInit /\ [][MarkNext]_vars

AllMarked ==
    /\ marker # <<>>
    /\ \A w \in Workers : marker[w].pc = "returned"

\* C6: for every interleaving of two or more workers calling
\* mark_as_processed on different records, the read-modify-persist
\* sequence is executed by at most one worker at a time, so that once all
\* calls have returned both the in-memory set and the persisted store
\* contain every fingerprint that was marked (no lost update).
C6_SerializedNoLostUpdate ==
    /\ marker # <<>> =>
          \A v, w \in Workers :
              (/\ marker[v].pc \notin {"image", "returned"}
               /\ marker[w].pc \notin {"image", "returned"}) => v = w
    /\ AllMarked =>
          \A w \in Workers :
              /\ marked_hashes(marker[w].input_data, {}, TRUE) \subseteq processed_hashes
              /\ hash_file.state = "ok"
              /\ marked_hashes(marker[w].input_data, {}, TRUE) \subseteq hash_file.hashes

(***************************************************************************)
(* A crash of the process and its restart.  One thread is marking a        *)
(* record (the steps of mark_as_processed above); the process may die at   *)
(* any of its steps or after the call has returned.  What the file system  *)
(* holds survives, the detector's set and the file object's buffer do     *)
(* not.  The restarted process builds a new DuplicateDetector, which       *)
(* loads the store, and asks is_duplicate for the same record.             *)
(*   marker.main.before: the fingerprints the store held when the call     *)
(*   began; marker.main.crashed_at: the step the process died at.          *)
(***************************************************************************)
CrashStores ==
    { Store("missing", {}), Store("ok", {}),
      Store("ok", {md5([bytes |-> "plan-B"])}) }

CrashInit ==
    /\ config = [ocr_confidence_threshold |-> DefaultThreshold,
                 duplicate_detection_enabled |-> TRUE]
    /\ OCRIdle
    /\ SeqIdle
    /\ hash_file \in CrashStores
    /\ processed_hashes = load_processed_hashes(hash_file)
    /\ dd_last = NoCall
    /\ dd_prev = NoCall
    /\ \E r \in MarkRecords :
         marker = [main |-> [pc |-> "image", input_data |-> r, dumped |-> {},
                             before |-> load_processed_hashes(hash_file),
                             crashed_at |-> "none"]]
    /\ par = ParInit
    /\ futures = <<>>
    /\ results = <<>>

\* The process dies: its memory is gone, the file stays as it is.
Crash ==
    /\ marker.main.pc \in {"image", "content", "open", "dump", "close", "returned"}
    /\ marker' = [marker EXCEPT !.main.crashed_at = marker.main.pc,
                                !.main.pc = "down",
                                !.main.dumped = {}]
    /\ processed_hashes' = {}
    /\ UNCHANGED hash_file
    /\ MarkUnchanged

\* Lines 535-551: the new process builds its detector from the store.
Restart ==
    /\ marker.main.pc = "down"
    /\ processed_hashes' = load_processed_hashes(hash_file)
    /\ marker' = [marker EXCEPT !.main.pc = "up"]
    /\ UNCHANGED hash_file
    /\ MarkUnchanged

\* Lines 574-599: the restarted run meets the record again.
CheckAfterRestart ==
    /\ marker.main.pc = "up"
    /\ dd_prev' = dd_last
    /\ dd_last' = [op |-> "is_duplicate", rec |-> marker.main.input_data,
                   ret |-> is_duplicate(marker.main.input_data, processed_hashes,
                               config.duplicate_detection_enabled, TRUE)]
    /\ marker' = [marker EXCEPT !.main.pc = "checked"]
    /\ UNCHANGED <<config, ocr_vars, processed_hashes, hash_file, seq_vars,
                   par, futures, results>>

CrashNext ==
    \/ MarkImage("main")
    \/ MarkContent("main")
    \/ OpenStore("main")
    \/ DumpStore("main")
    \/ CloseStore("main")
    \/ Crash
    \/ Restart
    \/ CheckAfterRestart

SpecCrash == CrashInit /\ [][CrashNext]_vars

CheckedAfterCrash ==
    /\ "main" \in DOMAIN marker
    /\ marker.main.pc = "checked"

\* C11: with a working store, if the process crashes after
\* mark_as_processed(r) has returned, then after restart is_duplicate(r) is
\* true; if it crashes before mark_as_processed(r) returns its fingerprints
\* to the store, then after restart r (not marked earlier) is not reported
\* duplicate and is processed again; no crash point loses fingerprints
\* persisted earlier.
C11_CrashKeepsWhatWasPersisted ==
    CheckedAfterCrash =>
        /\ marker.main.crashed_at = "returned" => dd_last.ret
        /\ (/\ marker.main.crashed_at # "returned"
            /\ marked_hashes(marker.main.input_data, {}, TRUE)
                   \cap marker.main.before = {})
              => ~dd_last.ret
        /\ marker.main.before \subseteq processed_hashes

(***************************************************************************)
(* EnergyGaugeAutomation.process_multiple_lots_parallel.                   *)
(*   par.pc: "idle", "submit" (in the first for loop, at file par.idx),    *)
(*   "collect" (in the second for loop, at job par.idx), "shutdown" (in    *)
(*   the exit of the with block, which is executor.shutdown(wait=True)),   *)
(*   "returned".                                                           *)
(*   A job is "queued", "running" in a worker thread, "hung" (running,     *)
(*   and it will never end), or "raised" (done, holding an exception).     *)
(***************************************************************************)
max_workers == 3

\* process_single_lot(self, input_file) called with two arguments.
TypeErrorText ==
    "process_single_lot() takes 2 positional arguments but 3 were given"

\* str() of the TimeoutError that future.result raises.
TimeoutErrorText == ""

JSONDecodeErrorText == "Expecting value"

Result(file, status, error) == [file |-> file, status |-> status, error |-> error]

ParDirectories ==
    {SampleBatch(n) : n \in 0..MaxFiles}
    \cup {[i \in 1..n |-> IF i = 2 THEN InvalidFile ELSE SampleBatch(n)[i]] :
            n \in 2..MaxFiles}

ParBatchInit ==
    /\ config = [ocr_confidence_threshold |-> DefaultThreshold,
                 duplicate_detection_enabled |-> TRUE]
    /\ OCRIdle
    /\ DedupIdle
    /\ quality_indicator = QualityInit
    /\ com_interface = ComInit
    /\ gui \in {[present |-> FALSE, processing |-> FALSE],
                [present |-> TRUE, processing |-> TRUE]}
    /\ input_files \in ParDirectories
    /\ faulty = {}
    /\ batch = BatchInit
    /\ pass = NoPass
    /\ prev = NoPass
    /\ tally = TallyInit
    /\ marker = <<>>
    /\ par = ParInit
    /\ futures = <<>>
    /\ results = <<>>

ParUnchanged ==
    UNCHANGED <<config, ocr_vars, dd_vars, seq_vars, marker>>

\* Lines 1331-1335: list the files; return [] when there is none.
ParStart ==
    /\ par.pc = "idle"
    /\ par' = [pc |-> IF input_files = <<>> THEN "returned" ELSE "submit",
               idx |-> 1]
    /\ UNCHANGED <<futures, results>>
    /\ ParUnchanged

AfterSubmit ==
    IF par.idx = Len(input_files)
    THEN [pc |-> "collect", idx |-> 1]
    ELSE [par EXCEPT !.idx = @ + 1]

\* Lines 1342-1355: one file of the first loop is parsed and its job
\* submitted.
SubmitJob ==
    /\ par.pc = "submit"
    /\ input_files[par.idx].valid
    /\ futures' = Append(futures, [file |-> par.idx, state |-> "queued"])
    /\ par' = AfterSubmit
    /\ UNCHANGED results
    /\ ParUnchanged

\* Lines 1349-1351 and 1357-1366: a file json.load rejects gets a failed
\* result and no job; one that holds JSON of another shape is submitted.
SubmitUnreadable ==
    /\ par.pc = "submit"
    /\ ~input_files[par.idx].valid
    /\ \/ /\ results' = Append(results,
                            Result(par.idx, "failed", JSONDecodeErrorText))
          /\ UNCHANGED futures
       \/ /\ futures' = Append(futures, [file |-> par.idx, state |-> "queued"])
          /\ UNCHANGED results
    /\ par' = AfterSubmit
    /\ ParUnchanged

Busy == {i \in 1..Len(futures) : futures[i].state \in {"running", "hung"}}

\* A worker thread of the executor takes the oldest queued job.
WorkerStart(i) ==
    /\ futures[i].state = "queued"
    /\ \A j \in 1..(i - 1) : futures[j].state # "queued"
    /\ Cardinality(Busy) < max_workers
    /\ futures' = [futures EXCEPT ![i].state = "running"]
    /\ UNCHANGED <<par, results>>
    /\ ParUnchanged

\* Line 1354: the job is the call process_single_lot(lot_id, input_data),
\* which raises TypeError; the future holds the exception.
WorkerRaise(i) ==
    /\ futures[i].state = "running"
    /\ futures' = [futures EXCEPT ![i].state = "raised"]
    /\ UNCHANGED <<par, results>>
    /\ ParUnchanged

\* The worker thread running the job never gets to end it.
WorkerHangs(i) ==
    /\ futures[i].state = "running"
    /\ futures' = [futures EXCEPT ![i].state = "hung"]
    /\ UNCHANGED <<par, results>>
    /\ ParUnchanged

\* Lines 1369-1373, 1386-1399: future.result returns the job's outcome;
\* the exception it holds is raised and reported.
CollectDone ==
    /\ par.pc = "collect"
    /\ par.idx <= Len(futures)
    /\ futures[par.idx].state = "raised"
    /\ results' = Append(results,
                         Result(futures[par.idx].file, "failed", TypeErrorText))
    /\ par' = [par EXCEPT !.idx = @ + 1]
    /\ UNCHANGED futures
    /\ ParUnchanged

\* Lines 1372, 1386-1399: the job has not ended when the timeout of
\* future.result expires.
CollectTimeout ==
    /\ par.pc = "collect"
    /\ par.idx <= Len(futures)
    /\ futures[par.idx].state # "raised"
    /\ results' = Append(results,
                         Result(futures[par.idx].file, "failed", TimeoutErrorText))
    /\ par' = [par EXCEPT !.idx = @ + 1]
    /\ UNCHANGED futures
    /\ ParUnchanged

\* The second loop is over: the with block of line 1340 is left.
BeginShutdown ==
    /\ par.pc = "collect"
    /\ par.idx > Len(futures)
    /\ par' = [par EXCEPT !.pc = "shutdown"]
    /\ UNCHANGED <<futures, results>>
    /\ ParUnchanged

\* executor.shutdown(wait=True) joins the worker threads; then lines
\* 1401-1426 write the report and return the results.
ReturnResults ==
    /\ par.pc = "shutdown"
    /\ \A i \in 1..Len(futures) : futures[i].state = "raised"
    /\ par' = [par EXCEPT !.pc = "returned"]
    /\ UNCHANGED <<futures, results>>
    /\ ParUnchanged

MainNext ==
    \/ ParStart
    \/ SubmitJob
    \/ SubmitUnreadable
    \/ CollectDone
    \/ CollectTimeout
    \/ BeginShutdown
    \/ ReturnResults

WorkersNext ==
    \E i \in 1..Len(futures) : WorkerStart(i) \/ WorkerRaise(i)

ParNext ==
    \/ MainNext
    \/ StopProcessing
    \/ \E i \in 1..Len(futures) :
          \/ WorkerStart(i)
          \/ WorkerRaise(i)
          \/ WorkerHangs(i)

\* The main thread keeps running, and so do the worker threads, except in
\* a job that hangs.
SpecPar ==
    /\ ParBatchInit
    /\ [][ParNext]_vars
    /\ WF_vars(MainNext)
    /\ WF_vars(WorkersNext)

TimedOut(i) == results[i].error = TimeoutErrorText

TimedOutResults == {i \in 1..Len(results) : TimedOut(i)}

\* C9: in a parallel batch (worker width 3, five valid records, downstream
\* calls working) in which exactly one record's processing exceeds the
\* per-record timeout, that record's result is failed with a timeout
\* reason that is distinguishable from other failure reasons, and each of
\* the other four records has result success.
C9_OthersSucceedBesideTimeout ==
    (/\ par.pc = "returned"
     /\ Len(input_files) = 5
     /\ \A i \in 1..5 : input_files[i].valid
     /\ Cardinality(TimedOutResults) = 1)
      => /\ Len(results) = 5
         /\ \A i \in 1..Len(results) :
               IF TimedOut(i)
               THEN /\ results[i].status = "failed"
                    /\ results[i].error \notin {TypeErrorText, JSONDecodeErrorText}
               ELSE results[i].status = "success"

Stopped == gui.present /\ ~gui.processing

\* C22: once the running flag is cleared by a user stop, no further record
\* is started: no step taken while the flag is cleared makes a pass of the
\* sequential loop or submits a job of the parallel batch.
C22_NothingStartedAfterStop ==
    [][ Stopped => /\ batch'.idx = batch.idx
                   /\ Len(futures') = Len(futures) ]_vars

\* The sequential loop alone: no pass is made while the flag is cleared.
C22_NoPassAfterStop ==
    [][ Stopped => (batch'.idx = batch.idx /\ pass' = pass) ]_vars

(***************************************************************************)
(* The extractor alone: any configuration, any image, any engine outcomes. *)
(***************************************************************************)
OCRInit ==
    /\ config \in [ocr_confidence_threshold : Thresholds,
                   duplicate_detection_enabled : {TRUE}]
    /\ ocr_in \in OCRInputs
    /\ ocr_out = NoResult
    /\ DedupIdle
    /\ SeqIdle
    /\ ParIdle

ExtractText ==
    /\ ocr_out = NoResult
    /\ ocr_out' = extract_text(ocr_in.exists, ocr_in.A, ocr_in.B,
                               config.ocr_confidence_threshold)
    /\ UNCHANGED <<par_vars, config, ocr_in, dd_vars, seq_vars>>

OCRNext == ExtractText

SpecOCR == OCRInit /\ [][OCRNext]_vars

(***************************************************************************)
(* Claims about extract_text, under SpecOCR.                               *)
(***************************************************************************)
\* The call has returned and both engines had an image to read.
OCRReturned == ocr_out # NoResult /\ ocr_in.exists

\* What the two adapters return in this call, and the threshold T.
OutA == extract_with_tesseract(ocr_in.A)
OutB == extract_with_easyocr(ocr_in.B)
OCR_T == config.ocr_confidence_threshold

ResultOfA(accepted) ==
    [text |-> OutA[1], confidence |-> OutA[2], method |-> "tesseract",
     success |-> accepted]

ResultOfB(accepted) ==
    [text |-> OutB[1], confidence |-> OutB[2], method |-> "easyocr",
     success |-> accepted]

\* C1 as stated: whenever Engine A's confidence a is >= T, extract_text
\* returns Engine A's text and confidence, tagged Engine A, accepted, whatever
\* Engine B's confidence is.
C1_AWinsWheneverConfident ==
    (OCRReturned /\ OutA[2] >= OCR_T) => ocr_out = ResultOfA(TRUE)

\* C1 amended: whenever Engine A's confidence is >= T and Engine A's text is
\* non-empty, extract_text returns Engine A's result, accepted, whatever
\* Engine B returns.
C1_AWinsWhenConfidentAndNonEmpty ==
    (OCRReturned /\ OutA[2] >= OCR_T /\ OutA[1] # <<>>)
        => ocr_out = ResultOfA(TRUE)

\* C1 witness: A is accepted although B is more confident and accepted too.
C1_Witness ==
    /\ OCRReturned
    /\ OutA[2] >= OCR_T /\ OutA[1] # <<>>
    /\ OutB[2] > OutA[2] /\ OutB[1] # <<>> /\ OutB[1] # OutA[1]
    /\ ocr_out.method = "tesseract"

\* C2: when a < T, b >= T and Engine B's text is non-empty, extract_text
\* returns Engine B's text and confidence, tagged Engine B, accepted.
C2_BWinsWhenAFails ==
    (OCRReturned /\ OutA[2] < OCR_T /\ OutB[2] >= OCR_T /\ OutB[1] # <<>>)
        => ocr_out = ResultOfB(TRUE)

\* C2 witness: the fallback was taken past a non-empty low-confidence A.
C2_Witness ==
    /\ OCRReturned
    /\ OutA[2] < OCR_T /\ OutA[1] # <<>>
    /\ OutB[2] = OCR_T /\ OutB[1] # <<>> /\ OutB[1] # OutA[1]
    /\ ocr_out.method = "easyocr" /\ ocr_out.success

\* C3: when a < T and b < T, extract_text returns the result of the engine
\* with the higher confidence, Engine A's when a = b, accepted=false in both.
C3_BestEffortBelowThreshold ==
    (OCRReturned /\ OutA[2] < OCR_T /\ OutB[2] < OCR_T)
        => /\ OutA[2] >= OutB[2] => ocr_out = ResultOfA(FALSE)
           /\ OutB[2] > OutA[2] => ocr_out = ResultOfB(FALSE)

\* C3 witness: a tie below the threshold, the texts differing, goes to A.
C3_Witness ==
    /\ OCRReturned
    /\ OutA[2] < OCR_T /\ OutA[2] = OutB[2] /\ OutA[2] > 0
    /\ OutA[1] # OutB[1] /\ OutB[1] # <<>>
    /\ ocr_out.method = "tesseract" /\ ~ocr_out.success

\* C16 as stated: every result returned by extract_text (the accepted
\* results, the best-effort result, and the result for a missing image
\* file) has accepted = true exactly when its confidence is >= the
\* configured threshold, for every threshold value.
C16_AcceptedIffAtThreshold ==
    ocr_out # NoResult =>
        (ocr_out.success <=> ocr_out.confidence >= OCR_T)

\* C16 amended: every result extract_text returns for an image file that
\* exists has accepted = true exactly when its confidence is >= the
\* configured threshold, for every threshold value; the result for a
\* missing image file has confidence 0 and accepted = false whatever the
\* threshold is.
C16_AcceptedIffAtThresholdAndImageExists ==
    ocr_out # NoResult =>
        /\ ocr_out.success <=> (ocr_in.exists /\ ocr_out.confidence >= OCR_T)
        /\ ~ocr_in.exists => (ocr_out.confidence = 0 /\ ~ocr_out.success)

\* The call for a missing image file under a threshold of 0.
C16_Witness ==
    /\ ocr_out # NoResult
    /\ ~ocr_in.exists
    /\ OCR_T = 0
    /\ ocr_out.confidence >= OCR_T
    /\ ~ocr_out.success

(***************************************************************************)
(* extract_field_from_text and enhance_data_with_ocr alone: a text, a      *)
(* field name and a record are chosen, and each function is applied to     *)
(* them.                                                                   *)
(***************************************************************************)
\* "Floor Area: 2,402 sq ft"
FloorAreaText ==
    <<"F","l","o","o","r"," ","A","r","e","a",":"," ","2",",","4","0","2",
      " ","s","q"," ","f","t">>

\* A text without a number
NoNumberText ==
    <<"n","o"," ","n","u","m","b","e","r","s"," ","h","e","r","e">>

\* The first pattern captures "," alone; the third captures "1500"
CommaThenAreaText ==
    <<"f","l","o","o","r"," ","a","r","e","a",":"," ",","," ","1","5","0",
      "0"," ","s","q"," ","f","t">>

\* The third pattern matches earlier in the text than the first
AreaAfterSqFtText ==
    <<"1",",","2","0","0"," ","s","q"," ","f","t"," ","f","l","o","o","r",
      " ","a","r","e","a"," ","2","4","0","2">>

\* Upper case
UpperCaseText ==
    <<"F","L","O","O","R"," ","A","R","E","A"," ","1","8","0","0">>

\* The only match captures "," alone
OnlyCommaText ==
    <<"f","l","o","o","r"," ","a","r","e","a",":"," ",",">>

\* The second tonnage pattern and the first seer pattern
RatingsText ==
    <<"T","O","N","N","A","G","E",":"," ","3",".","5"," ","S","E","E","R",
      " ","1","5">>

FieldTexts ==
    {FloorAreaText, NoNumberText, CommaThenAreaText, AreaAfterSqFtText,
     UpperCaseText, OnlyCommaText, RatingsText, PlanText}

FieldNames == DOMAIN patterns \cup {"lot_id"}

\* The sample with a second system whose tonnage is 0.
TwoSystemsContent ==
    put(SampleContent, "hvac",
        [system1 |-> [tonnage |-> 30, seer2 |-> 150],
         system2 |-> [tonnage |-> 0, seer2 |-> 140]])

EnhanceRecords ==
    { MakeRecord("Lot101", c, "floorplans/Lot101_plan.png") :
        c \in {SampleContent, FalsyContent, BareContent, TwoSystemsContent,
               NoAreaContent} }

NoFieldCall == [op |-> "none", value |-> NoField, data |-> EmptyDict]

FieldInit ==
    /\ ocr_in \in [text : FieldTexts, field_name : FieldNames,
                   input_data : EnhanceRecords]
    /\ ocr_out = NoFieldCall
    /\ config = [ocr_confidence_threshold |-> DefaultThreshold,
                 duplicate_detection_enabled |-> TRUE]
    /\ DedupIdle
    /\ SeqIdle
    /\ ParIdle

ExtractField ==
    /\ ocr_out.op # "extract_field_from_text"
    /\ ocr_out' = [op |-> "extract_field_from_text",
                   value |-> extract_field_from_text(ocr_in.text,
                                                     ocr_in.field_name),
                   data |-> ocr_in.input_data]
    /\ UNCHANGED <<par_vars, config, ocr_in, dd_vars, seq_vars>>

EnhanceData ==
    /\ ocr_out.op # "enhance_data_with_ocr"
    /\ ocr_out' = [op |-> "enhance_data_with_ocr",
                   value |-> NoField,
                   data |-> enhance_data_with_ocr(ocr_in.input_data,
                                                  ocr_in.text)]
    /\ UNCHANGED <<par_vars, config, ocr_in, dd_vars, seq_vars>>

FieldNext == ExtractField \/ EnhanceData

SpecField == FieldInit /\ [][FieldNext]_vars

(***************************************************************************)
(* Claims about enhance_data_with_ocr, under SpecField.                    *)
(***************************************************************************)
Enhanced == ocr_out.op = "enhance_data_with_ocr"

\* A value Python takes as true, where d holds key k.
Truthy(d, k) == has(d, k) /\ d[k] # 0

\* Dict after is dict before, except perhaps at key k, and there only if
\* before had no true value at k.
SameExceptFalsy(before, after, k) ==
    /\ DOMAIN after \in {DOMAIN before, DOMAIN before \cup {k}}
    /\ \A j \in DOMAIN before \ {k} : after[j] = before[j]
    /\ Truthy(before, k) => after[k] = before[k]

\* C19: enhance_data_with_ocr changes conditioned_floor_area or a system's
\* tonnage only where the field was absent or falsy before the call; a field
\* holding a true value, and every other part of the record, lot_id
\* included, is as it was, whatever the text holds.
C19_EnrichmentFillsOnlyMissingFields ==
    Enhanced =>
        LET before == ocr_in.input_data
            after == ocr_out.data
        IN  /\ DOMAIN after = DOMAIN before
            /\ \A k \in DOMAIN before \ {"building_data", "hvac"} :
                   after[k] = before[k]
            /\ after.lot_id = before.lot_id
            /\ has(before, "building_data") =>
                   SameExceptFalsy(before.building_data, after.building_data,
                                   "conditioned_floor_area")
            /\ has(before, "hvac") =>
                   /\ DOMAIN after.hvac = DOMAIN before.hvac
                   /\ \A system_id \in DOMAIN before.hvac :
                          SameExceptFalsy(before.hvac[system_id],
                                          after.hvac[system_id], "tonnage")

\* The text holds a floor area and a tonnage other than the record's; the
\* record's floor area and system1's tonnage are kept, and system2's
\* tonnage, which was 0, is filled.
C19_Witness ==
    /\ Enhanced
    /\ ocr_in.text = PlanText
    /\ pop(pop(ocr_in.input_data, "lot_id"), "floor_plan_image")
         = TwoSystemsContent
    /\ ocr_out.data.building_data.conditioned_floor_area = 24020
    /\ ocr_out.data.hvac.system1.tonnage = 30
    /\ ocr_out.data.hvac.system2.tonnage = 30

\* The floor area that was 0 is filled from the text.
C19_WitnessFilled ==
    /\ Enhanced
    /\ ocr_in.text = CommaThenAreaText
    /\ pop(pop(ocr_in.input_data, "lot_id"), "floor_plan_image")
         = FalsyContent
    /\ ocr_out.data.building_data.conditioned_floor_area = 15000

(***************************************************************************)
(* Claims about extract_field_from_text, under SpecField.                  *)
(***************************************************************************)
Extracted == ocr_out.op = "extract_field_from_text"

\* What pattern P captures in the lower-cased text, commas removed.
Captured(P, text) ==
    remove(group1(re_search(P, lower(text)), lower(text)), ",")

\* Pattern P matches the lower-cased text and what it captures is a number.
YieldsNumber(P, text) ==
    re_search(P, lower(text)).ok /\ float_ok(Captured(P, text))

Found(v) == [found |-> TRUE, value |-> v]

\* C20: extract_field_from_text returns the float string of what the first
\* pattern of the field, in the listed order, that matches the lower-cased
\* text with a capture that parses as a number captures, commas stripped; a
\* match that does not parse is passed over for the next pattern, and the
\* result is None when no pattern yields a number.  "Floor Area: 2,402 sq
\* ft" gives "2402.0" for conditioned_floor_area.
C20_FirstPatternThatParses ==
    Extracted =>
        LET text == ocr_in.text
            field_name == ocr_in.field_name
            field_patterns == IF field_name \in DOMAIN patterns
                              THEN patterns[field_name] ELSE <<>>
            yielding == {k \in 1..Len(field_patterns) :
                            YieldsNumber(field_patterns[k], text)}
        IN  /\ IF yielding = {}
               THEN ocr_out.value = NoField
               ELSE LET k == CHOOSE i \in yielding : \A j \in yielding : i <= j
                    IN  ocr_out.value =
                          Found(float_str(float_tenths(
                                    Captured(field_patterns[k], text))))
            /\ ocr_out.value =
                  CASE field_name = "conditioned_floor_area"
                         /\ text \in {FloorAreaText, AreaAfterSqFtText, PlanText}
                         -> Found(<<"2","4","0","2",".","0">>)
                    [] field_name = "conditioned_floor_area"
                         /\ text = CommaThenAreaText
                         -> Found(<<"1","5","0","0",".","0">>)
                    [] field_name = "conditioned_floor_area"
                         /\ text = UpperCaseText
                         -> Found(<<"1","8","0","0",".","0">>)
                    [] field_name = "tonnage" /\ text = PlanText
                         -> Found(<<"3",".","0">>)
                    [] field_name = "tonnage" /\ text = RatingsText
                         -> Found(<<"3",".","5">>)
                    [] field_name = "seer" /\ text = RatingsText
                         -> Found(<<"1","5",".","0">>)
                    [] OTHER -> NoField

\* The first pattern matches "floor area: ," and captures "," alone, which
\* is no number; the third pattern's "1500" is returned.
C20_Witness ==
    /\ Extracted
    /\ ocr_in.text = CommaThenAreaText
    /\ ocr_in.field_name = "conditioned_floor_area"
    /\ re_search(patterns.conditioned_floor_area[1], lower(ocr_in.text)).ok
    /\ ~YieldsNumber(patterns.conditioned_floor_area[1], ocr_in.text)
    /\ ocr_out.value = Found(<<"1","5","0","0",".","0">>)

\* The example of the claim.
C20_WitnessExample ==
    /\ Extracted
    /\ ocr_in.text = FloorAreaText
    /\ ocr_in.field_name = "conditioned_floor_area"
    /\ ocr_out.value = Found(<<"2","4","0","2",".","0">>)

\* C23: every result of extract_text with accepted = true carries non-empty
\* text; a result with empty text is returned with accepted = false.
C23_AcceptedHasText ==
    ocr_out # NoResult => (ocr_out.success => ocr_out.text # <<>>)

\* The engines this call ran, in order.
Ran == EnginesRun(ocr_in.exists, ocr_in.A, OCR_T)

\* The backend of the engine is missing or its call raised.
EngineFailed(e) == ~e.available \/ e.raises

\* C26: in every extract_text call Engine A is run first and Engine B is
\* run exactly when Engine A's result was not accepted at step 1 (confidence
\* below T or empty text): an accepted Engine A result is returned whatever
\* Engine B would have read, and a result tagged Engine B comes from a call
\* that ran it.  An engine that fails counts as ("", 0.0) and the call still
\* returns.  When the image file does not exist no engine is run and the
\* result is engine none, confidence 0, accepted = false.
C26_EngineOrder ==
    ocr_out # NoResult =>
        /\ ocr_in.exists =>
              /\ Ran # <<>> /\ Ran[1] = "tesseract"
              /\ (Len(Ran) = 2 /\ Ran[2] = "easyocr")
                    <=> (OutA[2] < OCR_T \/ OutA[1] = <<>>)
              /\ Len(Ran) = 1 =>
                    \A eB \in EngineEnvs :
                        extract_text(TRUE, ocr_in.A, eB, OCR_T) = ocr_out
              /\ ocr_out.method = "easyocr" => Len(Ran) = 2
              /\ EngineFailed(ocr_in.A) => OutA = <<(<<>>), 0>>
              /\ EngineFailed(ocr_in.B) => OutB = <<(<<>>), 0>>
              /\ ocr_out.method \in {"tesseract", "easyocr"}
        /\ ~ocr_in.exists =>
              /\ Ran = <<>>
              /\ ocr_out = [text |-> <<>>, confidence |-> 0, method |-> "none",
                            success |-> FALSE]

\* Engine A's call raised, Engine B was run and its result accepted.
C26_Witness ==
    /\ OCRReturned
    /\ ocr_in.A.available /\ ocr_in.A.raises
    /\ Ran = <<"tesseract", "easyocr">>
    /\ ocr_out.method = "easyocr" /\ ocr_out.success

\* Engine A was accepted and Engine B, which would have raised, was not run.
C26_WitnessAOnly ==
    /\ OCRReturned
    /\ Ran = <<"tesseract">>
    /\ ocr_in.B.available /\ ocr_in.B.raises
    /\ ocr_out.method = "tesseract" /\ ocr_out.success

====
